---- MODULE Spec2Model ----
(***************************************************************************)
(* A model of the Griha-Sajjwa finance tracker client: the derived loan    *)
(* arithmetic (balance, accrued interest, outstanding amount) that the     *)
(* list components recompute from fetched rows, the LoansList component    *)
(* over the remote loan tables, the Settings page / ControlContext /       *)
(* Dashboard over the remote user_settings row, the AuthProvider session   *)
(* check, and the DaywisePayment weekly schedule.                          *)
(*                                                                         *)
(* Amounts are whole currency units and interest rates whole percents.     *)
(* Interest is a rational number in the code (a JavaScript double); here   *)
(* it is kept exactly, multiplied by InterestScale = lcm(100*365, 100*30). *)
(* Instants are counted in ticks, TicksPerDay to a day; local time is      *)
(* taken to be UTC.                                                        *)
(***************************************************************************)
EXTENDS Integers, Sequences, FiniteSets, TLC

VARIABLES
    calcInput,      \* the loan, balance and evaluation instant handed to calculateInterest
    calcResult,     \* what each component's copy of calculateInterest returned
    ledger,         \* fetched rows of one customer: loans, loan_transactions, and the instant
    outView,        \* the outstanding figures three components derive from the ledger
    storeCustomers, \* remote table customers: rows in the order a fetch returns them
    dwCustomers,    \* DaywisePayment: customers state
    dwLoading,      \* DaywisePayment: loading state
    dwNotice,       \* DaywisePayment: variant of the last toast shown ("none" before any)
    dwToday,        \* what new Date().getDay() returns: 0 (Sunday) .. 6 (Saturday)
    serverSession,  \* the identity service: the user of the stored session, or "null"
    authUser,       \* AuthProvider: user state ("null" for null)
    authSession,    \* AuthProvider: session state, named by its user ("null" for null)
    authLoading,    \* AuthProvider: loading state
    authMounted,    \* AuthProvider: the effect's  mounted  flag
    authPending,    \* AuthProvider: what the effect still waits for: "getSession", "timer"
    authEvents,     \* auth-state events emitted and not yet delivered to the listener
    authNotices,    \* titles of the toasts shown by AuthProvider and Dashboard.handleSignOut
    signOutPending, \* Dashboard.handleSignOut awaits signOut()
    route,          \* the router's location: "/" (Dashboard) or "/auth"
    storeSettings,  \* remote table user_settings: the signed-in user's row
    settingsPage,   \* per browser session, the Settings page: its state and the handler it awaits
    controlContext, \* per browser session, ControlProvider: settings and loading
    dashboard,      \* per browser session, the Dashboard: tabSettings, activeTab, the fetch awaited
    page,           \* per browser session, the page shown: "dashboard" or "settings"
    notice,         \* per browser session, the last toast shown
    toggleLog,      \* history: per browser session, the last handleToggle that completed
    lastWriter,     \* history: the session whose write last changed visible_tabs (0: none yet)
    storeLoans,     \* remote table loans: the user's rows, newest first
    storeTx,        \* remote table loan_transactions: rows in the order they were inserted
    loansList,      \* LoansList: loans, transactions, loading, selectedLoan and the dialogs
    salesList,      \* SalesList: sales and loading
    stats,          \* Dashboard: stats
    calls,          \* the handlers that await a response, each with the stage it is at
    response,       \* the response delivered by the latest step: its request, and error or not
    toast,          \* the toast shown by the latest step (none: the empty one)
    anyError,       \* history: some request has returned an error
    editLoanDialog, \* EditLoanDialog: loading
    stStore,        \* the loans and loan_transactions tables read by CustomerStatement
    custStatement,  \* CustomerStatement: its prop and state
    stCalls,        \* fetchCustomerData invocations awaiting a response
    entriesInput,   \* rows and date range handed to the statement functions
    entriesResult,  \* the statements computed from them
    dcmStore,       \* the loans and loan_transactions tables read by DaywiseCustomerManager
    dcm,            \* DaywiseCustomerManager: one customer's loans, payment input, toast
    dcmCalls,       \* its requests awaiting a response
    dcmLast,        \* history: the last payment stored by handlePaymentSubmit
    authDelivered,  \* history: the auth-state listener has been called
    statementLoan,  \* the loan a statement is printed for, and its loan_transactions rows
    loanStatement,  \* the figures of the text and the PDF statement
    expensesStore,  \* remote table expenses: the user's rows
    expensesList,   \* ExpensesListEnhanced: expenses and loading
    dashExpenses,   \* Dashboard: stats.totalExpenses
    expPending,     \* the expenses reads awaiting a response
    expFresh,       \* history: the reads that succeeded since the table last changed
    organizeInput,  \* the customers handed to organizeCustomersData, with their loans' balances
    organizeResult, \* dayGroups and the totals shown for them
    cuCustomers,    \* remote table customers: the ids of the user's rows
    cuLoans,        \* remote table loans of those customers
    cuTx,           \* remote table loan_transactions
    customersList,  \* CustomersList: customers, each with its loans
    cuToast,        \* the last toast CustomersList or the payment dialog showed
    cuCalls,        \* deleteCustomer and fetchCustomers invocations awaiting a response
    deleteLog       \* history: the last deleteCustomer call, what it saw and whether it refused

calcVars == <<calcInput, calcResult>>
outVars == <<ledger, outView>>
dwVars == <<storeCustomers, dwCustomers, dwLoading, dwNotice, dwToday>>
authVars == <<serverSession, authUser, authSession, authLoading, authMounted, authPending,
              authEvents, authNotices, signOutPending, route, authDelivered>>
settingsVars == <<storeSettings, settingsPage, controlContext, dashboard, page, notice,
                  toggleLog, lastWriter>>
loansVars == <<storeLoans, storeTx, loansList, salesList, stats, calls, response, toast,
               anyError, editLoanDialog>>
stmtVars == <<stStore, custStatement, stCalls>>
entriesVars == <<entriesInput, entriesResult>>
managerVars == <<dcmStore, dcm, dcmCalls, dcmLast>>
loanStatementVars == <<statementLoan, loanStatement>>
expensesVars == <<expensesStore, expensesList, dashExpenses, expPending, expFresh>>
organizeVars == <<organizeInput, organizeResult>>
customersVars == <<cuCustomers, cuLoans, cuTx, customersList, cuToast, cuCalls, deleteLog>>
vars == <<calcInput, calcResult, ledger, outView,
          storeCustomers, dwCustomers, dwLoading, dwNotice, dwToday,
          serverSession, authUser, authSession, authLoading, authMounted, authPending,
          authEvents, authNotices, signOutPending, route,
          storeSettings, settingsPage, controlContext, dashboard, page, notice,
          toggleLog, lastWriter,
          storeLoans, storeTx, loansList, salesList, stats, calls, response, toast, anyError,
          editLoanDialog, stStore, custStatement, stCalls, entriesInput, entriesResult,
          dcmStore, dcm, dcmCalls, dcmLast, authDelivered,
          statementLoan, loanStatement,
          expensesStore, expensesList, dashExpenses, expPending, expFresh,
          organizeInput, organizeResult,
          cuCustomers, cuLoans, cuTx, customersList, cuToast, cuCalls, deleteLog>>

(***************************************************************************)
(* Bounds of the model.                                                    *)
(***************************************************************************)
YearSpan == 1           \* calendar years modelled after the first one
MaxRate == 2            \* interest rates 0 .. MaxRate, in steps of RateStep percent
MaxBalanceUnits == 2    \* balances -1 .. MaxBalanceUnits, in units of 50
MaxLedgerLoans == 2     \* loans of the customer whose outstanding figures are compared
MaxLedgerTx == 2        \* recorded payments in that ledger
MaxAuthEvents == 2      \* auth-state events waiting for delivery
MaxCustomers == 2       \* rows of the customers table
MaxLoans == 2           \* rows of the loans table
MaxPayments == 2        \* rows of the loan_transactions table
MaxLoanStatementTx == 2 \* recorded payments of the loan a statement is printed for
MaxExpenses == 2        \* rows of the expenses table
MaxOrganizeCustomers == 3 \* customers handed to organizeCustomersData
MaxListCustomers == 2   \* rows of the customers table shown by CustomersList
MaxRepayments == 2      \* payments recorded on that customer's loan
MaxCalls == 1           \* handlers awaiting a response when the user starts another

(***************************************************************************)
(* Calendar: what new Date(s), getTime, getFullYear, getMonth and getDate  *)
(* give.  A date is [y, m, d, t]: year, month 0..11, day of month 1..31    *)
(* and the tick within the day.                                            *)
(***************************************************************************)
MaxStatementDay == 3
MaxStatementLoans == 2
MaxStatementTx == 2
MaxStatementCalls == 1
MaxManagerLoans == 2
MaxManagerTx == 3
TicksPerDay == 2

Years == 2023 .. (2023 + YearSpan)

IsLeap(y) == (y % 4 = 0 /\ y % 100 # 0) \/ y % 400 = 0

DaysInMonth(y, m) ==
    IF m = 1 THEN (IF IsLeap(y) THEN 29 ELSE 28)
    ELSE IF m \in {3, 5, 8, 10} THEN 30 ELSE 31

DaysInYear(y) == IF IsLeap(y) THEN 366 ELSE 365

RECURSIVE DaysBeforeYear(_)
DaysBeforeYear(y) == IF y <= 2023 THEN 0 ELSE DaysInYear(y - 1) + DaysBeforeYear(y - 1)

RECURSIVE DaysBeforeMonth(_, _)
DaysBeforeMonth(y, m) == IF m = 0 THEN 0 ELSE DaysInMonth(y, m - 1) + DaysBeforeMonth(y, m - 1)

\* Date.prototype.getTime, in ticks since the first modelled year began.
getTime(date) ==
    (DaysBeforeYear(date.y) + DaysBeforeMonth(date.y, date.m) + (date.d - 1)) * TicksPerDay + date.t

\* Math.ceil(n / d) for d > 0 (TLA+ \div rounds towards minus infinity).
CeilDiv(n, d) == -((-n) \div d)

\* The dates the inputs are drawn from: the start, the middle and the end of
\* January, February and December of every modelled year.
Dates ==
    { dt \in [y : Years, m : {0, 1, 11}, d : {1, 16, 31}, t : 0 .. (TicksPerDay - 1)] :
        dt.d <= DaysInMonth(dt.y, dt.m) }

(***************************************************************************)
(* Loans as calculateInterest reads them.                                  *)
(***************************************************************************)
\* interest_type: LoansList declares 'daily' | 'monthly' | 'none'; AddLoanDialog
\* stores 'simple' | 'compound' | 'none'.
InterestTypes == {"none", "daily", "monthly", "simple", "compound"}

Rates == { 5 * r : r \in 0 .. MaxRate }

Balances == { 50 * b : b \in -1 .. MaxBalanceUnits }

\* Interest is kept multiplied by InterestScale = lcm(100 * 365, 100 * 30):
\*   balance * (rate / 100) * (daysDiff / 365)        = balance * rate * daysDiff * DailyUnit / InterestScale
\*   balance * (rate / 100) * (months + dayDiff / 30) = balance * rate * (30 * months + dayDiff) * MonthlyUnit / InterestScale
InterestScale == 6 * 36500

DailyUnit == InterestScale \div (100 * 365)

MonthlyUnit == InterestScale \div (100 * 30)

\* A copy that rounds the elapsed days down instead of up.
LoansList_calculateInterest_floor(loan, balance, now) ==
    IF loan.interest_type = "none" \/ loan.interest_rate = 0 THEN 0
    ELSE IF loan.interest_type = "daily"
    THEN LET timeDiff == getTime(now) - getTime(loan.loan_date)
             daysDiff == timeDiff \div TicksPerDay
         IN  balance * loan.interest_rate * daysDiff * DailyUnit
    ELSE IF loan.interest_type = "monthly"
    THEN LET months == (now.y - loan.loan_date.y) * 12 + (now.m - loan.loan_date.m)
             dayDiff == now.d - loan.loan_date.d
         IN  balance * loan.interest_rate * (30 * months + dayDiff) * MonthlyUnit
    ELSE 0

\* LoansList.calculateInterest: the guard is  type === 'none' || rate === 0.
LoansList_calculateInterest(loan, balance, now) ==
    IF loan.interest_type = "none" \/ loan.interest_rate = 0 THEN 0
    ELSE IF loan.interest_type = "daily"
    THEN LET timeDiff == getTime(now) - getTime(loan.loan_date)
             daysDiff == CeilDiv(timeDiff, TicksPerDay)
         IN  balance * loan.interest_rate * daysDiff * DailyUnit
    ELSE IF loan.interest_type = "monthly"
    THEN LET months == (now.y - loan.loan_date.y) * 12 + (now.m - loan.loan_date.m)
             dayDiff == now.d - loan.loan_date.d
         IN  balance * loan.interest_rate * (30 * months + dayDiff) * MonthlyUnit
    ELSE 0

\* A copy that prorates the month difference only, without the day/30 part.
CustomersList_calculateInterest_wholeMonths(loan, balance, now) ==
    IF loan.interest_rate = 0 \/ loan.interest_type = "none" THEN 0
    ELSE IF loan.interest_type = "daily"
    THEN LET timeDiff == getTime(now) - getTime(loan.loan_date)
             daysDiff == CeilDiv(timeDiff, TicksPerDay)
         IN  balance * loan.interest_rate * daysDiff * DailyUnit
    ELSE IF loan.interest_type = "monthly"
    THEN LET months == (now.y - loan.loan_date.y) * 12 + (now.m - loan.loan_date.m)
         IN  balance * loan.interest_rate * (30 * months) * MonthlyUnit
    ELSE 0

\* CustomersList.calculateInterest: the guard is  !rate || type === 'none'.
CustomersList_calculateInterest(loan, balance, now) ==
    IF loan.interest_rate = 0 \/ loan.interest_type = "none" THEN 0
    ELSE IF loan.interest_type = "daily"
    THEN LET timeDiff == getTime(now) - getTime(loan.loan_date)
             daysDiff == CeilDiv(timeDiff, TicksPerDay)
         IN  balance * loan.interest_rate * daysDiff * DailyUnit
    ELSE IF loan.interest_type = "monthly"
    THEN LET months == (now.y - loan.loan_date.y) * 12 + (now.m - loan.loan_date.m)
             dayDiff == now.d - loan.loan_date.d
         IN  balance * loan.interest_rate * (30 * months + dayDiff) * MonthlyUnit
    ELSE 0

\* CustomerStatement.calculateInterest.
CustomerStatement_calculateInterest(loan, balance, now) ==
    IF loan.interest_rate = 0 \/ loan.interest_type = "none" THEN 0
    ELSE IF loan.interest_type = "daily"
    THEN LET timeDiff == getTime(now) - getTime(loan.loan_date)
             daysDiff == CeilDiv(timeDiff, TicksPerDay)
         IN  balance * loan.interest_rate * daysDiff * DailyUnit
    ELSE IF loan.interest_type = "monthly"
    THEN LET months == (now.y - loan.loan_date.y) * 12 + (now.m - loan.loan_date.m)
             dayDiff == now.d - loan.loan_date.d
         IN  balance * loan.interest_rate * (30 * months + dayDiff) * MonthlyUnit
    ELSE 0

\* DaywisePayment.calculateInterest.
DaywisePayment_calculateInterest(loan, balance, now) ==
    IF loan.interest_rate = 0 \/ loan.interest_type = "none" THEN 0
    ELSE IF loan.interest_type = "daily"
    THEN LET timeDiff == getTime(now) - getTime(loan.loan_date)
             daysDiff == CeilDiv(timeDiff, TicksPerDay)
         IN  balance * loan.interest_rate * daysDiff * DailyUnit
    ELSE IF loan.interest_type = "monthly"
    THEN LET months == (now.y - loan.loan_date.y) * 12 + (now.m - loan.loan_date.m)
             dayDiff == now.d - loan.loan_date.d
         IN  balance * loan.interest_rate * (30 * months + dayDiff) * MonthlyUnit
    ELSE 0

(***************************************************************************)
(* Balances and outstanding amounts, as three components derive them from  *)
(* rows of loans and loan_transactions.  loans and transactions are the    *)
(* fetched arrays (sequences of rows).                                     *)
(***************************************************************************)
RECURSIVE SumAmount(_)
\* rows.reduce((sum, t) => sum + t.amount, 0)
SumAmount(rows) == IF rows = <<>> THEN 0 ELSE Head(rows).amount + SumAmount(Tail(rows))

Max(a, b) == IF a >= b THEN a ELSE b

\* loans.find(l => l.id === loanId)
HasLoan(loans, loanId) == \E i \in 1 .. Len(loans) : loans[i].id = loanId

FindLoan(loans, loanId) ==
    loans[CHOOSE i \in 1 .. Len(loans) :
              /\ loans[i].id = loanId
              /\ \A j \in 1 .. (i - 1) : loans[j].id # loanId]

\* LoansList.calculateLoanBalance
LoansList_calculateLoanBalance(loans, transactions, loanId) ==
    LET loanTransactions == SelectSeq(transactions, LAMBDA t : t.loan_id = loanId)
        totalPaid == SumAmount(loanTransactions)
    IN  IF HasLoan(loans, loanId)
        THEN FindLoan(loans, loanId).principal_amount - totalPaid
        ELSE 0

\* LoansList.calculateOutstandingAmount, multiplied by InterestScale.
LoansList_calculateOutstandingAmount(loans, transactions, loan, now) ==
    LET balance == LoansList_calculateLoanBalance(loans, transactions, loan.id)
        interest == LoansList_calculateInterest(loan, balance, now)
    IN  balance * InterestScale + interest

\* DaywiseCustomerManager.fetchCustomers: the outstanding_balance it attaches
\* to a loan, from the loan's embedded loan_transactions.
DaywiseCustomerManager_outstandingBalance(loan, transactions) ==
    LET paidAmount == SumAmount(SelectSeq(transactions, LAMBDA t : t.loan_id = loan.id))
    IN  Max(0, loan.principal_amount - paidAmount)

RECURSIVE CustomerSummary_outstandingFrom(_, _, _, _)
\* CustomerSummary.fetchSummaryData, the loans?.forEach that accumulates
\* summary.outstanding_balance for one customer, from loan i on.
CustomerSummary_outstandingFrom(loans, transactions, customerId, i) ==
    IF i > Len(loans) THEN 0
    ELSE LET loan == loans[i]
             loanTransactions == SelectSeq(transactions, LAMBDA t : t.loan_id = loan.id)
             totalPaid == SumAmount(loanTransactions)
         IN  (IF loan.customer_id = customerId
              THEN Max(0, loan.principal_amount - totalPaid)
              ELSE 0)
             + CustomerSummary_outstandingFrom(loans, transactions, customerId, i + 1)

CustomerSummary_outstandingBalance(loans, transactions, customerId) ==
    CustomerSummary_outstandingFrom(loans, transactions, customerId, 1)

RECURSIVE LoansList_outstandingFrom(_, _, _, _, _)
\* The sum of LoansList.calculateOutstandingAmount over a customer's loans.
LoansList_outstandingFrom(loans, transactions, customerId, now, i) ==
    IF i > Len(loans) THEN 0
    ELSE (IF loans[i].customer_id = customerId
          THEN LoansList_calculateOutstandingAmount(loans, transactions, loans[i], now)
          ELSE 0)
         + LoansList_outstandingFrom(loans, transactions, customerId, now, i + 1)

(***************************************************************************)
(* DaywisePayment: the weekly schedule.                                    *)
(***************************************************************************)
\* const daysOfWeek = ['sunday', ..., 'saturday'], indexed from 0 in the code.
daysOfWeek == <<"sunday", "monday", "tuesday", "wednesday", "thursday", "friday", "saturday">>

\* payment_day as AddCustomerDialog stores it: a SelectItem value, or null
\* (formData.payment_day || null), written "null" here.
PaymentDays == { daysOfWeek[i] : i \in 1 .. 7 } \cup {"null"}

\* customers.filter(customer => customer.payment_day === day)
DaywisePayment_getCustomersByDay(customers, day) ==
    SelectSeq(customers, LAMBDA customer : customer.payment_day = day)

\* daysOfWeek[today.getDay()]
DaywisePayment_getCurrentDay(today) == daysOfWeek[today + 1]

\* A schedule that starts with tomorrow: for (let i = 1; i <= 7; i++).
DaywisePayment_getUpcomingDays_fromTomorrow(today) ==
    [k \in 1 .. 7 |-> daysOfWeek[((today + k) % 7) + 1]]

\* for (let i = 0; i < 7; i++) upcomingDays.push(daysOfWeek[(currentDayIndex + i) % 7])
DaywisePayment_getUpcomingDays(today) ==
    [k \in 1 .. 7 |-> daysOfWeek[((today + (k - 1)) % 7) + 1]]

(***************************************************************************)
(* AuthProvider and the Dashboard's guards.                                *)
(***************************************************************************)
Users == {"u1", "u2"}

\* A copy of the guards that tests  !user  before  loading.
Dashboard_render_userFirst(loading, user) ==
    IF user = "null" THEN "redirect"
    ELSE IF loading THEN "spinner"
    ELSE "tabs"

\* Dashboard: what the component returns.  "spinner" is <LoadingSpinner/>,
\* "redirect" is <Navigate to="/auth" replace/>, "tabs" the sidebar, the stats
\* cards and the tabbed views.
Dashboard_render(loading, user) ==
    IF loading THEN "spinner"
    ELSE IF user = "null" THEN "redirect"
    ELSE "tabs"

\* What the window shows: the Dashboard is mounted on "/", inside AuthProvider.
DashboardView ==
    IF route = "/" /\ authMounted THEN Dashboard_render(authLoading, authUser) ELSE "unmounted"

InitAuth ==
    /\ serverSession \in Users \cup {"null"}
    /\ authUser = "null"
    /\ authSession = "null"
    /\ authLoading = TRUE
    /\ authMounted = TRUE
    /\ authPending = {"getSession", "timer"}
    /\ authEvents = <<>>
    /\ authNotices = {}
    /\ signOutPending = FALSE
    /\ route = "/"
    /\ authDelivered = FALSE

\* The identity service emits an auth-state event carrying the current session
\* (INITIAL_SESSION, TOKEN_REFRESHED).
AuthService_emit ==
    /\ Len(authEvents) < MaxAuthEvents
    /\ authEvents' = Append(authEvents, serverSession)
    /\ UNCHANGED <<serverSession, authUser, authSession, authLoading, authMounted, authPending,
                   authNotices, signOutPending, route, authDelivered>>

\* The onAuthStateChange listener: delivered only while subscribed.
AuthProvider_onAuthStateChange ==
    /\ authEvents # <<>>
    /\ authMounted
    /\ authSession' = Head(authEvents)
    /\ authUser' = Head(authEvents)
    /\ authLoading' = FALSE
    /\ authEvents' = Tail(authEvents)
    /\ authDelivered' = TRUE
    /\ UNCHANGED <<serverSession, authMounted, authPending, authNotices, signOutPending, route>>

\* An initializeAuth that does not test  mounted  before it sets state.
AuthProvider_initializeAuth_unguarded(outcome) ==
    /\ "getSession" \in authPending
    /\ authPending' = authPending \ {"getSession"}
    /\ IF outcome = "ok"
       THEN /\ authSession' = serverSession
            /\ authUser' = serverSession
            /\ authLoading' = FALSE
       ELSE /\ authLoading' = FALSE
            /\ UNCHANGED <<authUser, authSession>>
    /\ UNCHANGED <<serverSession, authMounted, authEvents, authNotices, signOutPending, route,
                   authDelivered>>

\* initializeAuth after  await supabase.auth.getSession():  the call returned a
\* session ("ok"), returned an error ("error"), or threw ("throw").
AuthProvider_initializeAuth(outcome) ==
    /\ "getSession" \in authPending
    /\ authPending' = authPending \ {"getSession"}
    /\ IF ~authMounted THEN UNCHANGED <<authUser, authSession, authLoading>>
       ELSE IF outcome = "ok"
       THEN /\ authSession' = serverSession
            /\ authUser' = serverSession
            /\ authLoading' = FALSE
       ELSE /\ authLoading' = FALSE
            /\ UNCHANGED <<authUser, authSession>>
    /\ UNCHANGED <<serverSession, authMounted, authEvents, authNotices, signOutPending, route,
                   authDelivered>>

\* The 5 second setTimeout callback.
AuthProvider_timeout ==
    /\ "timer" \in authPending
    /\ authPending' = authPending \ {"timer"}
    /\ authLoading' = IF authMounted THEN FALSE ELSE authLoading
    /\ UNCHANGED <<serverSession, authUser, authSession, authMounted, authEvents, authNotices,
                   signOutPending, route, authDelivered>>

\* The effect's cleanup: mounted = false, clearTimeout, unsubscribe.
AuthProvider_unmount ==
    /\ authMounted
    /\ authMounted' = FALSE
    /\ authPending' = authPending \ {"timer"}
    /\ authEvents' = <<>>
    /\ UNCHANGED <<serverSession, authUser, authSession, authLoading, authNotices,
                   signOutPending, route, authDelivered>>

\* AuthProvider.signIn: signInWithPassword succeeded (the service stores the
\* session and emits SIGNED_IN) or returned an error, which is toasted.
AuthProvider_signIn(u, ok) ==
    /\ authMounted
    /\ route = "/auth"
    /\ IF ok
       THEN /\ Len(authEvents) < MaxAuthEvents
            /\ serverSession' = u
            /\ authEvents' = Append(authEvents, u)
            /\ UNCHANGED authNotices
       ELSE /\ authNotices' = authNotices \cup {"Sign In Error"}
            /\ UNCHANGED <<serverSession, authEvents>>
    /\ UNCHANGED <<authUser, authSession, authLoading, authMounted, authPending,
                   signOutPending, route, authDelivered>>

\* Dashboard.handleSignOut up to  await signOut().
Dashboard_handleSignOut_start ==
    /\ DashboardView = "tabs"
    /\ ~signOutPending
    /\ signOutPending' = TRUE
    /\ UNCHANGED <<serverSession, authUser, authSession, authLoading, authMounted, authPending,
                   authEvents, authNotices, route, authDelivered>>

\* AuthProvider.signOut resolves and Dashboard.handleSignOut continues.  signOut
\* toasts an error it gets or catches and returns normally, so handleSignOut
\* always toasts 'Signed out' and navigates to /auth.
Dashboard_handleSignOut_done(outcome) ==
    /\ signOutPending
    /\ signOutPending' = FALSE
    /\ IF outcome = "ok"
       THEN /\ Len(authEvents) < MaxAuthEvents
            /\ serverSession' = "null"
            /\ authEvents' = IF authMounted THEN Append(authEvents, "null") ELSE authEvents
            /\ authNotices' = authNotices \cup {"Signed out"}
       ELSE /\ authNotices' = authNotices \cup {"Sign Out Error", "Signed out"}
            /\ UNCHANGED <<serverSession, authEvents>>
    /\ route' = "/auth"
    /\ UNCHANGED <<authUser, authSession, authLoading, authMounted, authPending, authDelivered>>

\* <Navigate to="/auth" replace/> takes effect.
Dashboard_Navigate ==
    /\ DashboardView = "redirect"
    /\ route' = "/auth"
    /\ UNCHANGED <<serverSession, authUser, authSession, authLoading, authMounted, authPending,
                   authEvents, authNotices, signOutPending, authDelivered>>

\* The user opens the Dashboard's location.
OpenDashboard ==
    /\ route = "/auth"
    /\ route' = "/"
    /\ UNCHANGED <<serverSession, authUser, authSession, authLoading, authMounted, authPending,
                   authEvents, authNotices, signOutPending, authDelivered>>

IdleAuth ==
    /\ serverSession = "u1"
    /\ authUser = "u1"
    /\ authSession = "u1"
    /\ authLoading = FALSE
    /\ authMounted = TRUE
    /\ authPending = {}
    /\ authEvents = <<>>
    /\ authNotices = {}
    /\ signOutPending = FALSE
    /\ route = "/"
    /\ authDelivered = FALSE

(***************************************************************************)
(* The user_settings row, and the pages that read and write it: Settings,  *)
(* ControlProvider and the Dashboard.  A JSON object is a function from    *)
(* its keys to its values; null is the object without keys.  Each browser  *)
(* session of the one signed-in user has its own copy of every component.  *)
(***************************************************************************)
Sessions == {1, 2}

Null == [k \in {} |-> TRUE]

\* { ...a, ...b }
Spread(a, b) == [k \in DOMAIN a \cup DOMAIN b |-> IF k \in DOMAIN b THEN b[k] ELSE a[k]]

\* obj[key] read as a condition: a missing key is undefined, which is falsy.
Truthy(obj, key) == key \in DOMAIN obj /\ obj[key]

\* { ...obj, [key]: !obj[key] }
Toggled(obj, key) == Spread(obj, [k \in {key} |-> ~Truthy(obj, key)])

AllTrue(keys) == [k \in keys |-> TRUE]

\* Settings.tsx: the TabSettings literal of useState, fetchSettings and resetToDefaults.
Settings_defaultSettings == AllTrue({"loans", "customers", "daywise", "payments"})

\* Settings.tsx: the nine-key ControlSettings literal (useState, defaultControlSettings,
\* resetToDefaults) and the eight-key one (fetchSettings on 42703 and on no row).
Settings_defaultControlSettings ==
    AllTrue({"allowEdit", "allowDelete", "allowAddNew", "allowExport", "showFinancialTotals",
             "allowBulkOperations", "allowAddPayment", "allowPaymentManager",
             "allowRecordPayment"})

Settings_defaultControls ==
    AllTrue({"allowEdit", "allowDelete", "allowAddNew", "allowExport", "showFinancialTotals",
             "allowBulkOperations", "allowAddPayment", "allowPaymentManager"})

\* Dashboard.tsx: the TabSettings literal of useState and fetchTabSettings.
Dashboard_defaultSettings ==
    AllTrue({"expenses", "loans", "customers", "sales", "daywise", "payments"})

\* ControlContext.tsx: the only value setSettings is ever given.
ControlContext_defaults ==
    AllTrue({"allowEdit", "allowDelete", "allowAddNew", "allowExport", "showFinancialTotals",
             "allowBulkOperations"})

\* The switches the model operates: of the tab switches the page renders (one
\* per key of settings), and of the control switches.
TabToggleKeys == {"loans", "expenses"}
ControlToggleKeys == {"allowEdit", "allowDelete"}

NoRow == [exists |-> FALSE, visible_tabs |-> Null, control_settings |-> Null]

\* .insert({ user_id, visible_tabs, control_settings }): the table holds one row
\* per user (every read is .eq('user_id', ...).maybeSingle()), so inserting a
\* second one is refused.
Store_insert(row, visible_tabs, control_settings) ==
    IF row.exists
    THEN [ok |-> FALSE, row |-> row]
    ELSE [ok |-> TRUE,
          row |-> [exists |-> TRUE, visible_tabs |-> visible_tabs,
                   control_settings |-> control_settings]]

\* .upsert({ user_id, visible_tabs, control_settings })
Store_upsert(row, visible_tabs, control_settings) ==
    [exists |-> TRUE, visible_tabs |-> visible_tabs, control_settings |-> control_settings]

\* A variant of the write that patches the toggled key into the stored object.
Settings_visibleTabsWritten_patchKey(stored, newSettings, key) ==
    Spread(stored, [k \in {key} |-> newSettings[key]])

\* handleToggle: .update({ visible_tabs: newSettings }): the column's new value.
Settings_visibleTabsWritten(stored, newSettings, key) == newSettings

NoNotice == [title |-> "", description |-> "", variant |-> ""]
Toast(title, description, variant) ==
    [title |-> title, description |-> description, variant |-> variant]

NoCall == [handler |-> "none", stage |-> "none", key |-> "", new |-> Null, old |-> Null]

\* The Settings component as it mounts: useState initial values; with a user the
\* effect calls fetchSettings, which awaits its select.
Settings_mounted ==
    [settings |-> Settings_defaultSettings,
     controlSettings |-> Settings_defaultControlSettings,
     isUpdating |-> FALSE,
     isLoading |-> TRUE,
     resetPending |-> FALSE,
     call |-> [NoCall EXCEPT !.handler = "fetchSettings", !.stage = "select"]]

\* The Dashboard component as it mounts: useState initial value; the effect
\* calls fetchTabSettings, which awaits its select.
Dashboard_mounted ==
    [tabSettings |-> Dashboard_defaultSettings, fetch |-> "select", activeTab |-> "expenses"]

NoToggleLog ==
    [done |-> FALSE, key |-> "", base |-> Null, written |-> Null, existing |-> FALSE,
     requestFailed |-> FALSE, ok |-> FALSE]

\* ControlProvider.fetchControlSettings with a user: setLoading(true); the
\* database fetch is skipped and the defaults are set; finally setLoading(false).
\* It has no await, so it runs to completion within the step that calls it.
ControlContext_fetchControlSettings(row) ==
    [settings |-> ControlContext_defaults, loading |-> FALSE]

\* Dashboard: {tabSettings.<k> && <TabsTrigger value=k>}
Dashboard_tabRendered(tabSettings, k) == Truthy(tabSettings, k)

\* LoansList and ExpensesListEnhanced: {controlSettings.allowEdit && <Button>},
\* if (!controlSettings.allowEdit) return.
ControlGate(s, flag) == Truthy(controlContext[s].settings, flag)

\* navigate('/settings'): the Settings page mounts.  Navigation is taken only
\* while the page being left awaits nothing.
Settings_mount(s) ==
    /\ page[s] = "dashboard"
    /\ dashboard[s].fetch = "idle"
    /\ page' = [page EXCEPT ![s] = "settings"]
    /\ settingsPage' = [settingsPage EXCEPT ![s] = Settings_mounted]
    /\ UNCHANGED <<storeSettings, controlContext, dashboard, notice, toggleLog, lastWriter>>

\* fetchSettings after its select: outcome is "ok", "42703" (column missing) or
\* "error" (any other error).
Settings_fetchSettings_select(s, outcome) ==
    LET st == settingsPage[s]
    IN  /\ page[s] = "settings"
        /\ st.call.handler = "fetchSettings" /\ st.call.stage = "select"
        /\ IF outcome = "error"
           THEN /\ notice' = [notice EXCEPT ![s] = Toast("Error", "Failed to load settings", "destructive")]
                /\ settingsPage' = [settingsPage EXCEPT ![s] =
                       [st EXCEPT !.isLoading = FALSE, !.call = NoCall]]
           ELSE IF outcome = "ok" /\ storeSettings.exists
           THEN /\ settingsPage' = [settingsPage EXCEPT ![s] =
                       [st EXCEPT !.settings = storeSettings.visible_tabs,
                                  !.controlSettings =
                                      IF storeSettings.control_settings # Null
                                      THEN Spread(Settings_defaultControlSettings,
                                                  storeSettings.control_settings)
                                      ELSE Settings_defaultControlSettings,
                                  !.isLoading = FALSE,
                                  !.call = NoCall]]
                /\ UNCHANGED notice
           ELSE /\ settingsPage' = [settingsPage EXCEPT ![s] =
                       [st EXCEPT !.settings = Settings_defaultSettings,
                                  !.controlSettings = Settings_defaultControls,
                                  !.call.stage = "insert"]]
                /\ notice' = [notice EXCEPT ![s] =
                       IF outcome = "42703"
                       THEN Toast("Migration Needed", "Control settings column missing", "destructive")
                       ELSE notice[s]]
        /\ UNCHANGED <<storeSettings, controlContext, dashboard, page, toggleLog, lastWriter>>

\* fetchSettings after its insert of the default row: an error is only logged.
Settings_fetchSettings_insert(s, outcome) ==
    LET st == settingsPage[s]
        res == Store_insert(storeSettings, Settings_defaultSettings, Null)
    IN  /\ page[s] = "settings"
        /\ st.call.handler = "fetchSettings" /\ st.call.stage = "insert"
        /\ storeSettings' = IF outcome = "ok" THEN res.row ELSE storeSettings
        /\ lastWriter' = IF outcome = "ok" /\ res.ok THEN s ELSE lastWriter
        /\ settingsPage' = [settingsPage EXCEPT ![s] =
               [st EXCEPT !.isLoading = FALSE, !.call = NoCall]]
        /\ UNCHANGED <<controlContext, dashboard, page, notice, toggleLog>>

\* handleToggle(key) up to its first await.  The page renders one switch per
\* key of settings, disabled while isUpdating, and only once isLoading is false.
Settings_handleToggle(s, key) ==
    LET st == settingsPage[s]
    IN  /\ page[s] = "settings"
        /\ ~st.isLoading
        /\ ~st.isUpdating
        /\ key \in DOMAIN st.settings
        /\ settingsPage' = [settingsPage EXCEPT ![s] =
               [st EXCEPT !.settings = Toggled(st.settings, key),
                          !.isUpdating = TRUE,
                          !.call = [handler |-> "handleToggle", stage |-> "select", key |-> key,
                                    new |-> Toggled(st.settings, key), old |-> st.settings]]]
        /\ UNCHANGED <<storeSettings, controlContext, dashboard, page, notice, toggleLog,
                       lastWriter>>

\* handleToggle's failure path without its setSettings(settings).
Settings_handleToggle_fail_keeping(s, description, existing, requestFailed) ==
    LET st == settingsPage[s]
    IN  /\ settingsPage' = [settingsPage EXCEPT ![s] =
               [st EXCEPT !.isUpdating = FALSE, !.call = NoCall]]
        /\ notice' = [notice EXCEPT ![s] = Toast("Error", description, "destructive")]
        /\ toggleLog' = [toggleLog EXCEPT ![s] =
               [done |-> TRUE, key |-> st.call.key, base |-> st.call.old,
                written |-> st.call.new, existing |-> existing,
                requestFailed |-> requestFailed, ok |-> FALSE]]

\* handleToggle fails: setSettings(settings) with the settings of the render
\* that started it, a destructive toast, finally setIsUpdating(false).
Settings_handleToggle_fail(s, description, existing, requestFailed) ==
    LET st == settingsPage[s]
    IN  /\ settingsPage' = [settingsPage EXCEPT ![s] =
               [st EXCEPT !.settings = st.call.old, !.isUpdating = FALSE, !.call = NoCall]]
        /\ notice' = [notice EXCEPT ![s] = Toast("Error", description, "destructive")]
        /\ toggleLog' = [toggleLog EXCEPT ![s] =
               [done |-> TRUE, key |-> st.call.key, base |-> st.call.old,
                written |-> st.call.new, existing |-> existing,
                requestFailed |-> requestFailed, ok |-> FALSE]]

\* handleToggle after  select('id'): a fetchError is thrown to the catch block.
Settings_handleToggle_select(s, outcome) ==
    LET st == settingsPage[s]
    IN  /\ page[s] = "settings"
        /\ st.call.handler = "handleToggle" /\ st.call.stage = "select"
        /\ IF outcome = "ok"
           THEN /\ settingsPage' = [settingsPage EXCEPT ![s] =
                       [st EXCEPT !.call.stage =
                           IF storeSettings.exists THEN "update" ELSE "insert"]]
                /\ UNCHANGED <<notice, toggleLog>>
           ELSE Settings_handleToggle_fail(s,
                    "An unexpected error occurred while updating settings", FALSE, TRUE)
        /\ UNCHANGED <<storeSettings, controlContext, dashboard, page, lastWriter>>

\* handleToggle after its update or insert.  An update of a row that exists
\* replaces the whole visible_tabs column; it is refused only when the request
\* itself fails (outcome "error").
Settings_handleToggle_write(s, outcome) ==
    LET st == settingsPage[s]
        ins == Store_insert(storeSettings, st.call.new, Null)
        ok == outcome = "ok" /\ (st.call.stage = "update" \/ ins.ok)
    IN  /\ page[s] = "settings"
        /\ st.call.handler = "handleToggle" /\ st.call.stage \in {"update", "insert"}
        /\ IF ok
           THEN /\ storeSettings' =
                       IF st.call.stage = "insert" THEN ins.row
                       ELSE [storeSettings EXCEPT !.visible_tabs =
                                Settings_visibleTabsWritten(storeSettings.visible_tabs,
                                                            st.call.new, st.call.key)]
                /\ lastWriter' = s
                /\ settingsPage' = [settingsPage EXCEPT ![s] =
                       [st EXCEPT !.isUpdating = FALSE, !.call = NoCall]]
                /\ notice' = [notice EXCEPT ![s] =
                       Toast("Success", "Settings updated successfully", "default")]
                /\ toggleLog' = [toggleLog EXCEPT ![s] =
                       [done |-> TRUE, key |-> st.call.key, base |-> st.call.old,
                        written |-> st.call.new, existing |-> st.call.stage = "update",
                        requestFailed |-> FALSE, ok |-> TRUE]]
           ELSE /\ Settings_handleToggle_fail(s, "Failed to update settings",
                                              st.call.stage = "update", outcome # "ok")
                /\ UNCHANGED <<storeSettings, lastWriter>>
        /\ UNCHANGED <<controlContext, dashboard, page>>

\* handleControlToggle(key) up to its first await.
Settings_handleControlToggle(s, key) ==
    LET st == settingsPage[s]
    IN  /\ page[s] = "settings"
        /\ ~st.isLoading
        /\ ~st.isUpdating
        /\ key \in DOMAIN st.controlSettings
        /\ settingsPage' = [settingsPage EXCEPT ![s] =
               [st EXCEPT !.controlSettings = Toggled(st.controlSettings, key),
                          !.isUpdating = TRUE,
                          !.call = [handler |-> "handleControlToggle", stage |-> "select",
                                    key |-> key, new |-> Toggled(st.controlSettings, key),
                                    old |-> st.controlSettings]]]
        /\ UNCHANGED <<storeSettings, controlContext, dashboard, page, notice, toggleLog,
                       lastWriter>>

\* handleControlToggle's catch block: setControlSettings(controlSettings) with
\* the value of the render that started it, a destructive toast, finally
\* setIsUpdating(false).
Settings_handleControlToggle_fail(s) ==
    LET st == settingsPage[s]
    IN  /\ settingsPage' = [settingsPage EXCEPT ![s] =
               [st EXCEPT !.controlSettings = st.call.old, !.isUpdating = FALSE,
                          !.call = NoCall]]
        /\ notice' = [notice EXCEPT ![s] =
               Toast("Error", "An unexpected error occurred while updating control settings",
                     "destructive")]

\* handleControlToggle after  select('id').
Settings_handleControlToggle_select(s, outcome) ==
    LET st == settingsPage[s]
    IN  /\ page[s] = "settings"
        /\ st.call.handler = "handleControlToggle" /\ st.call.stage = "select"
        /\ IF outcome = "ok"
           THEN /\ settingsPage' = [settingsPage EXCEPT ![s] =
                       [st EXCEPT !.call.stage =
                           IF storeSettings.exists THEN "update" ELSE "insert"]]
                /\ UNCHANGED notice
           ELSE Settings_handleControlToggle_fail(s)
        /\ UNCHANGED <<storeSettings, controlContext, dashboard, page, toggleLog, lastWriter>>

\* handleControlToggle after its update of control_settings, or its insert of
\* a row holding the page's settings and the new control settings; on success
\* the toast, then refreshSettings(), finally setIsUpdating(false).
Settings_handleControlToggle_write(s, outcome) ==
    LET st == settingsPage[s]
        ins == Store_insert(storeSettings, st.settings, st.call.new)
        ok == outcome = "ok" /\ (st.call.stage = "update" \/ ins.ok)
    IN  /\ page[s] = "settings"
        /\ st.call.handler = "handleControlToggle" /\ st.call.stage \in {"update", "insert"}
        /\ IF ok
           THEN /\ storeSettings' =
                       IF st.call.stage = "insert" THEN ins.row
                       ELSE [storeSettings EXCEPT !.control_settings = st.call.new]
                /\ lastWriter' = IF st.call.stage = "insert" THEN s ELSE lastWriter
                /\ settingsPage' = [settingsPage EXCEPT ![s] =
                       [st EXCEPT !.isUpdating = FALSE, !.call = NoCall]]
                /\ notice' = [notice EXCEPT ![s] =
                       Toast("Success", "Control settings updated successfully", "default")]
                /\ controlContext' = [controlContext EXCEPT ![s] =
                       ControlContext_fetchControlSettings(storeSettings')]
           ELSE /\ Settings_handleControlToggle_fail(s)
                /\ UNCHANGED <<storeSettings, lastWriter, controlContext>>
        /\ UNCHANGED <<dashboard, page, toggleLog>>

\* resetToDefaults up to its await: both local objects are set to the defaults.
\* The button is disabled while isUpdating; the handler does not set it.
Settings_resetToDefaults(s) ==
    LET st == settingsPage[s]
    IN  /\ page[s] = "settings"
        /\ ~st.isLoading
        /\ ~st.isUpdating
        /\ ~st.resetPending
        /\ settingsPage' = [settingsPage EXCEPT ![s] =
               [st EXCEPT !.settings = Settings_defaultSettings,
                          !.controlSettings = Settings_defaultControlSettings,
                          !.resetPending = TRUE]]
        /\ UNCHANGED <<storeSettings, controlContext, dashboard, page, notice, toggleLog,
                       lastWriter>>

\* resetToDefaults after its upsert.
Settings_resetToDefaults_done(s, outcome) ==
    LET st == settingsPage[s]
    IN  /\ page[s] = "settings"
        /\ st.resetPending
        /\ settingsPage' = [settingsPage EXCEPT ![s] = [st EXCEPT !.resetPending = FALSE]]
        /\ IF outcome = "ok"
           THEN /\ storeSettings' = Store_upsert(storeSettings, Settings_defaultSettings,
                                                 Settings_defaultControlSettings)
                /\ lastWriter' = s
                /\ notice' = [notice EXCEPT ![s] =
                       Toast("Success", "Settings reset to defaults", "default")]
           ELSE /\ notice' = [notice EXCEPT ![s] =
                       Toast("Error", "Failed to reset settings", "destructive")]
                /\ UNCHANGED <<storeSettings, lastWriter>>
        /\ UNCHANGED <<controlContext, dashboard, page, toggleLog>>

\* navigate('/'): the Dashboard mounts.
Dashboard_mount(s) ==
    LET st == settingsPage[s]
    IN  /\ page[s] = "settings"
        /\ st.call = NoCall /\ ~st.resetPending
        /\ page' = [page EXCEPT ![s] = "dashboard"]
        /\ dashboard' = [dashboard EXCEPT ![s] = Dashboard_mounted]
        /\ UNCHANGED <<storeSettings, settingsPage, controlContext, notice, toggleLog,
                       lastWriter>>

\* fetchTabSettings after its select: an error is logged and nothing changes; a
\* row's visible_tabs becomes tabSettings; without a row the defaults are inserted.
Dashboard_fetchTabSettings_select(s, outcome) ==
    /\ page[s] = "dashboard"
    /\ dashboard[s].fetch = "select"
    /\ dashboard' = [dashboard EXCEPT ![s] =
           IF outcome # "ok" THEN [dashboard[s] EXCEPT !.fetch = "idle"]
           ELSE IF storeSettings.exists
           THEN [dashboard[s] EXCEPT !.tabSettings = storeSettings.visible_tabs,
                                     !.fetch = "idle"]
           ELSE [dashboard[s] EXCEPT !.fetch = "insert"]]
    /\ UNCHANGED <<storeSettings, settingsPage, controlContext, page, notice, toggleLog,
                   lastWriter>>

\* fetchTabSettings after its insert: the defaults are set only if it succeeded.
Dashboard_fetchTabSettings_insert(s, outcome) ==
    LET res == Store_insert(storeSettings, Dashboard_defaultSettings, Null)
        ok == outcome = "ok" /\ res.ok
    IN  /\ page[s] = "dashboard"
        /\ dashboard[s].fetch = "insert"
        /\ storeSettings' = IF ok THEN res.row ELSE storeSettings
        /\ lastWriter' = IF ok THEN s ELSE lastWriter
        /\ dashboard' = [dashboard EXCEPT ![s] =
               [dashboard[s] EXCEPT
                    !.tabSettings = IF ok THEN Dashboard_defaultSettings
                                    ELSE dashboard[s].tabSettings,
                    !.fetch = "idle"]]
        /\ UNCHANGED <<settingsPage, controlContext, page, notice, toggleLog>>

\* <Tabs value={activeTab} onValueChange={setActiveTab}>: the trigger of a tab
\* that is rendered is clicked.
Dashboard_setActiveTab(s, tab) ==
    /\ page[s] = "dashboard"
    /\ Dashboard_tabRendered(dashboard[s].tabSettings, tab)
    /\ dashboard[s].activeTab # tab
    /\ dashboard' = [dashboard EXCEPT ![s].activeTab = tab]
    /\ UNCHANGED <<storeSettings, settingsPage, controlContext, page, notice, toggleLog,
                   lastWriter>>

\* A session that is signed in and at rest on the Dashboard.
SessionAtRest ==
    /\ settingsPage = [s \in Sessions |->
           [Settings_mounted EXCEPT !.isLoading = FALSE, !.call = NoCall]]
    /\ controlContext = [s \in Sessions |-> ControlContext_fetchControlSettings(NoRow)]
    /\ dashboard = [s \in Sessions |-> [Dashboard_mounted EXCEPT !.fetch = "idle"]]
    /\ page = [s \in Sessions |-> "dashboard"]
    /\ notice = [s \in Sessions |-> NoNotice]
    /\ toggleLog = [s \in Sessions |-> NoToggleLog]
    /\ lastWriter = 0

IdleSettings ==
    /\ storeSettings = NoRow
    /\ SessionAtRest

\* The user's row as the app leaves it after the first Dashboard load, or no
\* row yet; session 1 has just opened the Dashboard.
InitSettings ==
    /\ storeSettings \in {NoRow, Store_insert(NoRow, Dashboard_defaultSettings, Null).row}
    /\ settingsPage = [s \in Sessions |->
           [Settings_mounted EXCEPT !.isLoading = FALSE, !.call = NoCall]]
    /\ controlContext = [s \in Sessions |-> ControlContext_fetchControlSettings(storeSettings)]
    /\ dashboard = [s \in Sessions |->
           IF s = 1 THEN Dashboard_mounted ELSE [Dashboard_mounted EXCEPT !.fetch = "idle"]]
    /\ page = [s \in Sessions |-> "dashboard"]
    /\ notice = [s \in Sessions |-> NoNotice]
    /\ toggleLog = [s \in Sessions |-> NoToggleLog]
    /\ lastWriter = 0

\* Both sessions have just opened the Settings page.
InitSessions ==
    /\ storeSettings \in {NoRow, Store_insert(NoRow, Dashboard_defaultSettings, Null).row}
    /\ settingsPage = [s \in Sessions |-> Settings_mounted]
    /\ controlContext = [s \in Sessions |-> ControlContext_fetchControlSettings(storeSettings)]
    /\ dashboard = [s \in Sessions |-> [Dashboard_mounted EXCEPT !.fetch = "idle"]]
    /\ page = [s \in Sessions |-> "settings"]
    /\ notice = [s \in Sessions |-> NoNotice]
    /\ toggleLog = [s \in Sessions |-> NoToggleLog]
    /\ lastWriter = 0

(***************************************************************************)
(* SpecInterest: one loan, one balance and one instant, handed to the four *)
(* copies of calculateInterest.                                            *)
(***************************************************************************)
CalcLoans == [interest_type : InterestTypes, interest_rate : Rates, loan_date : Dates]

\* AddLoanDialog: the interest types its Select offers.
AddLoanDialog_interestTypes == {"none", "simple", "compound"}

\* AddLoanDialog.handleSubmit: the interest columns and loan_date of the row it
\* inserts for a filled form.
AddLoanDialog_insertedLoan(formData) ==
    [interest_type |-> formData.interestType,
     interest_rate |-> IF formData.interestType = "none" THEN 0 ELSE formData.interestRate,
     loan_date |-> formData.loanDate]

AddLoanDialog_forms ==
    [interestType : AddLoanDialog_interestTypes, interestRate : Rates, loanDate : Dates]

NoResult == [done |-> FALSE, loansList |-> 0, customersList |-> 0,
             customerStatement |-> 0, daywisePayment |-> 0]

InitInterest ==
    /\ calcInput \in [loan : CalcLoans, balance : Balances, now : Dates]
    /\ calcResult = NoResult

EvalInterest ==
    /\ ~calcResult.done
    /\ calcResult' =
          [done |-> TRUE,
           loansList |-> LoansList_calculateInterest(calcInput.loan, calcInput.balance, calcInput.now),
           customersList |-> CustomersList_calculateInterest(calcInput.loan, calcInput.balance, calcInput.now),
           customerStatement |-> CustomerStatement_calculateInterest(calcInput.loan, calcInput.balance, calcInput.now),
           daywisePayment |-> DaywisePayment_calculateInterest(calcInput.loan, calcInput.balance, calcInput.now)]
    /\ UNCHANGED calcInput

(***************************************************************************)
(* SpecOutstanding: the rows of one customer's loans and payments, from    *)
(* which LoansList, DaywiseCustomerManager and CustomerSummary each derive *)
(* an outstanding figure.                                                  *)
(***************************************************************************)
LedgerDates == { dt \in Dates : dt.t = 0 /\ dt.d = 1 /\ dt.m = 0 }

LedgerLoanRows ==
    [principal_amount : {100, 200}, interest_type : {"none", "daily", "monthly"},
     interest_rate : {0, 5}, loan_date : LedgerDates]

LedgerTxRows == [loan_id : 1 .. MaxLedgerLoans, amount : {50, 150}]

Range(s) == { s[i] : i \in 1 .. Len(s) }

SeqsUpTo(S, n) == UNION { [1 .. k -> S] : k \in 0 .. n }

\* Loan i of the ledger has id i; all belong to customer 1.
LoanRow(i, r) ==
    [id |-> i, customer_id |-> 1, principal_amount |-> r.principal_amount,
     interest_type |-> r.interest_type, interest_rate |-> r.interest_rate,
     loan_date |-> r.loan_date, is_active |-> TRUE]

\* A loan counted as Closed only once its outstanding amount is negative.
LoansList_isClosedAt_strict(loans, transactions, loan, now) ==
    LoansList_calculateOutstandingAmount(loans, transactions, loan, now) < 0

\* LoansList: isClosed = outstanding <= 0 on the day of the render, in
\* filteredLoans and again on each card.
LoansList_isClosedAt(loans, transactions, loan, now) ==
    LoansList_calculateOutstandingAmount(loans, transactions, loan, now) <= 0

\* LoansList.filteredLoans for a status prop and an empty search query.
LoansList_filteredLoansFor(loans, transactions, status, now) ==
    SelectSeq(loans, LAMBDA loan :
        LET isClosed == LoansList_isClosedAt(loans, transactions, loan, now)
        IN  /\ ~(status = "active" /\ isClosed)
            /\ ~(status = "closed" /\ ~isClosed))

\* The cards of filteredLoans that render Add Payment and View Ledger.
LoansList_cardsWithPayment(loans, transactions, status, now) ==
    SelectSeq(LoansList_filteredLoansFor(loans, transactions, status, now),
              LAMBDA loan : ~LoansList_isClosedAt(loans, transactions, loan, now))

NoOutView == [done |-> FALSE, loansList |-> <<>>, daywise |-> <<>>,
              loansListTotal |-> 0, summary |-> 0,
              active |-> {}, closed |-> {}, offered |-> {}]

InitOutstanding ==
    /\ \E rows \in SeqsUpTo(LedgerLoanRows, MaxLedgerLoans) \ {<<>>} :
       \E txs \in SeqsUpTo(LedgerTxRows, MaxLedgerTx) :
       \E now \in LedgerDates :
          /\ \A i \in 1 .. Len(txs) : txs[i].loan_id <= Len(rows)
          /\ ledger = [loans |-> [i \in 1 .. Len(rows) |-> LoanRow(i, rows[i])],
                       transactions |-> txs, now |-> now]
    /\ outView = NoOutView

EvalOutstanding ==
    /\ ~outView.done
    /\ outView' =
          [done |-> TRUE,
           loansList |-> [i \in 1 .. Len(ledger.loans) |->
                LoansList_calculateOutstandingAmount(ledger.loans, ledger.transactions,
                                                     ledger.loans[i], ledger.now)],
           daywise |-> [i \in 1 .. Len(ledger.loans) |->
                DaywiseCustomerManager_outstandingBalance(ledger.loans[i], ledger.transactions)],
           loansListTotal |-> LoansList_outstandingFrom(ledger.loans, ledger.transactions, 1, ledger.now, 1),
           summary |-> CustomerSummary_outstandingBalance(ledger.loans, ledger.transactions, 1),
           active |-> { l.id : l \in Range(LoansList_filteredLoansFor(ledger.loans,
                                      ledger.transactions, "active", ledger.now)) },
           closed |-> { l.id : l \in Range(LoansList_filteredLoansFor(ledger.loans,
                                      ledger.transactions, "closed", ledger.now)) },
           offered |-> { l.id : l \in
                           Range(LoansList_cardsWithPayment(ledger.loans,
                                     ledger.transactions, "active", ledger.now))
                           \cup Range(LoansList_cardsWithPayment(ledger.loans,
                                     ledger.transactions, "closed", ledger.now)) }]
    /\ UNCHANGED ledger

\* The state of a part of the program that a specification leaves out.
FirstDay == [y |-> 2023, m |-> 0, d |-> 1, t |-> 0]

IdleOutstanding ==
    /\ ledger = [loans |-> <<>>, transactions |-> <<>>, now |-> FirstDay]
    /\ outView = NoOutView

IdleInterest ==
    /\ calcInput = [loan |-> [interest_type |-> "none", interest_rate |-> 0, loan_date |-> FirstDay],
                    balance |-> 0, now |-> FirstDay]
    /\ calcResult = NoResult

(***************************************************************************)
(* The loans and loan_transactions tables, and the components that read    *)
(* and write them: LoansList, the Dashboard's fetchStats, and SalesList    *)
(* over the sales table.  A request is answered from the tables as they    *)
(* are when its response is delivered.  The loans of this part bear no     *)
(* interest, so the clock plays no role in it.                             *)
(***************************************************************************)
\* The loans table as the specification starts: MaxLoans loans of 100.
StoreLoanRow(i) ==
    LoanRow(i, [principal_amount |-> 100, interest_type |-> "none", interest_rate |-> 0,
                loan_date |-> FirstDay])

PaymentAmounts == {50}

\* The rows a sales fetch returns; nothing in the model writes the sales table.
StoreSales == <<[id |-> 1, customer_id |-> 1]>>

\* An awaited handler: the stage it is at, the loan it is about (0: none), the
\* loan ids it asked for, and the number it carries (an amount or a count).
Call(fn, stage, loan, ids, n) ==
    [fn |-> fn, stage |-> stage, loan |-> loan, ids |-> ids, n |-> n]

NoResponse == [request |-> "none", error |-> FALSE]
Response(request, outcome) == [request |-> request, error |-> outcome # "ok"]

\* .from('loan_transactions').select('*').in('loan_id', loanIds)
TransactionsIn(rows, loanIds) == SelectSeq(rows, LAMBDA t : t.loan_id \in loanIds)

\* loans.map(l => l.id)
LoanIds(loans) == { loans[i].id : i \in 1 .. Len(loans) }

\* LoansList: isClosed = outstanding <= 0, with outstanding = balance + interest.
LoansList_isClosed(loans, transactions, loan) ==
    LoansList_isClosedAt(loans, transactions, loan, FirstDay)

\* LoansList.filteredLoans with status 'active' (the Dashboard passes no
\* status) and an empty search query.
LoansList_filteredLoans(loans, transactions) ==
    SelectSeq(loans, LAMBDA loan : ~LoansList_isClosed(loans, transactions, loan))

\* The loans whose card is on screen.
LoansList_listed ==
    IF loansList.loading THEN {}
    ELSE LoanIds(LoansList_filteredLoans(loansList.loans, loansList.transactions))

\* LoansList as it mounts: useState initial values; the effect calls fetchLoans.
LoansList_mounted ==
    [loans |-> <<>>, transactions |-> <<>>, loading |-> TRUE, selectedLoan |-> 0,
     showPaymentDialog |-> FALSE, showLedgerDialog |-> FALSE, editDialogOpen |-> FALSE]

\* The awaited handlers that belong to LoansList.
LoansListCalls == { c \in calls : c.fn \notin {"fetchStats", "fetchSales"} }

\* A new handler is started by the user only while fewer than MaxCalls await.
MayStart == Cardinality(calls) < MaxCalls

\* What every step records: the response it delivered (if any), the toast it
\* showed (if any), and whether any request has returned an error so far.
Step(resp, shown) ==
    /\ response' = resp
    /\ toast' = shown
    /\ anyError' = (anyError \/ resp.error)

\* fetchLoans after its select: setLoans(data), or the destructive toast;
\* finally setLoading(false).  A new loans array with length > 0 runs the
\* effect, which starts fetchAllTransactions for the ids of those loans.
LoansList_afterFetchLoans(outcome, rest) ==
    /\ loansList' = [loansList EXCEPT
           !.loans = IF outcome = "ok" THEN storeLoans ELSE loansList.loans,
           !.loading = FALSE]
    /\ calls' = rest \cup
           (IF outcome = "ok" /\ Len(storeLoans) > 0
            THEN {Call("fetchAllTransactions", "select", 0, LoanIds(storeLoans), 0)}
            ELSE {})
    /\ Step(Response("fetchLoans", outcome),
            IF outcome = "ok" THEN NoNotice
            ELSE Toast("Error", "Failed to fetch loans", "destructive"))

\* The Loans tab is opened: LoansList mounts and its effect calls fetchLoans.
LoansList_mount ==
    /\ LoansListCalls = {}
    /\ MayStart
    /\ loansList' = LoansList_mounted
    /\ calls' = calls \cup {Call("fetchLoans", "select", 0, {}, 0)}
    /\ Step(NoResponse, NoNotice)
    /\ UNCHANGED <<storeLoans, storeTx, salesList, stats, editLoanDialog>>

LoansList_fetchLoans(outcome) ==
    LET c == Call("fetchLoans", "select", 0, {}, 0)
    IN  /\ c \in calls
        /\ LoansList_afterFetchLoans(outcome, calls \ {c})
        /\ UNCHANGED <<storeLoans, storeTx, salesList, stats, editLoanDialog>>

\* fetchAllTransactions after its select: setTransactions(data || []); the
\* error is not read.
LoansList_fetchAllTransactions(outcome) ==
    \E c \in calls :
        /\ c.fn = "fetchAllTransactions"
        /\ loansList' = [loansList EXCEPT !.transactions =
               IF outcome = "ok" THEN TransactionsIn(storeTx, c.ids) ELSE <<>>]
        /\ calls' = calls \ {c}
        /\ Step(Response("fetchAllTransactions", outcome), NoNotice)
        /\ UNCHANGED <<storeLoans, storeTx, salesList, stats, editLoanDialog>>

\* fetchTransactions(loanId) after its select: setTransactions(data), or the
\* destructive toast.
LoansList_afterFetchTransactions(outcome, loanId) ==
    IF outcome = "ok" THEN TransactionsIn(storeTx, {loanId}) ELSE loansList.transactions

FetchTransactionsToast(outcome) ==
    IF outcome = "ok" THEN NoNotice
    ELSE Toast("Error", "Failed to fetch transactions", "destructive")

\* showLedger(loan) up to its await: View Ledger is offered on the card of a
\* loan that is not closed.
LoansList_showLedger(loanId) ==
    /\ loanId \in LoansList_listed
    /\ MayStart
    /\ loansList' = [loansList EXCEPT !.selectedLoan = loanId]
    /\ calls' = calls \cup {Call("showLedger", "fetchTransactions", loanId, {}, 0)}
    /\ Step(NoResponse, NoNotice)
    /\ UNCHANGED <<storeLoans, storeTx, salesList, stats, editLoanDialog>>

\* showLedger after  await fetchTransactions(loan.id): setShowLedgerDialog(true).
LoansList_showLedger_done(outcome) ==
    \E c \in calls :
        /\ c.fn = "showLedger"
        /\ loansList' = [loansList EXCEPT
               !.transactions = LoansList_afterFetchTransactions(outcome, c.loan),
               !.showLedgerDialog = TRUE]
        /\ calls' = calls \ {c}
        /\ Step(Response("fetchTransactions", outcome), FetchTransactionsToast(outcome))
        /\ UNCHANGED <<storeLoans, storeTx, salesList, stats, editLoanDialog>>

\* showPayment(loan): Add Payment is offered on the card of a loan that is not
\* closed.
LoansList_showPayment(loanId) ==
    /\ loanId \in LoansList_listed
    /\ loansList' = [loansList EXCEPT !.selectedLoan = loanId, !.showPaymentDialog = TRUE]
    /\ Step(NoResponse, NoNotice)
    /\ UNCHANGED <<storeLoans, storeTx, salesList, stats, calls, editLoanDialog>>

\* A dialog's onOpenChange(false).
LoansList_onOpenChange(dialog) ==
    /\ \/ dialog = "payment" /\ loansList.showPaymentDialog
          /\ loansList' = [loansList EXCEPT !.showPaymentDialog = FALSE]
       \/ dialog = "ledger" /\ loansList.showLedgerDialog
          /\ loansList' = [loansList EXCEPT !.showLedgerDialog = FALSE]
       \/ dialog = "edit" /\ loansList.editDialogOpen
          /\ loansList' = [loansList EXCEPT !.editDialogOpen = FALSE]
    /\ Step(NoResponse, NoNotice)
    /\ UNCHANGED <<storeLoans, storeTx, salesList, stats, calls, editLoanDialog>>

\* handlePayment up to its insert: the payment form is submitted.
LoansList_handlePayment(amount) ==
    /\ loansList.showPaymentDialog
    /\ loansList.selectedLoan # 0
    /\ MayStart
    /\ calls' = calls \cup {Call("handlePayment", "insert", loansList.selectedLoan, {}, amount)}
    /\ Step(NoResponse, NoNotice)
    /\ UNCHANGED <<storeLoans, storeTx, loansList, salesList, stats, editLoanDialog>>

\* handlePayment after its insert: the row is stored, the toast shown, the
\* dialog closed and fetchLoans awaited; or the error is thrown to the catch
\* block.  The table refuses a payment for a loan that is no longer stored.
LoansList_handlePayment_insert(outcome) ==
    \E c \in calls :
        LET ok == outcome = "ok" /\ c.loan \in LoanIds(storeLoans)
        IN  /\ c.fn = "handlePayment" /\ c.stage = "insert"
            /\ ok => Len(storeTx) < MaxPayments
            /\ IF ok
               THEN /\ storeTx' = Append(storeTx, [loan_id |-> c.loan, amount |-> c.n])
                    /\ loansList' = [loansList EXCEPT !.showPaymentDialog = FALSE]
                    /\ calls' = (calls \ {c}) \cup {[c EXCEPT !.stage = "fetchLoans"]}
                    /\ Step(Response("insert loan_transactions", "ok"),
                            Toast("Payment recorded",
                                  "The payment has been successfully recorded.", "default"))
               ELSE /\ calls' = calls \ {c}
                    /\ Step(Response("insert loan_transactions", "error"),
                            Toast("Error", "Failed to record payment", "destructive"))
                    /\ UNCHANGED <<storeTx, loansList>>
            /\ UNCHANGED <<storeLoans, salesList, stats, editLoanDialog>>

\* handlePayment after  await fetchLoans().
LoansList_handlePayment_fetchLoans(outcome) ==
    \E c \in calls :
        /\ c.fn = "handlePayment" /\ c.stage = "fetchLoans"
        /\ LoansList_afterFetchLoans(outcome,
               (calls \ {c}) \cup {[c EXCEPT !.stage = "fetchTransactions"]})
        /\ UNCHANGED <<storeLoans, storeTx, salesList, stats, editLoanDialog>>

\* handlePayment after  await fetchTransactions(selectedLoan.id): onUpdate(),
\* which is the Dashboard's fetchStats.
LoansList_handlePayment_fetchTransactions(outcome) ==
    \E c \in calls :
        /\ c.fn = "handlePayment" /\ c.stage = "fetchTransactions"
        /\ loansList' = [loansList EXCEPT
               !.transactions = LoansList_afterFetchTransactions(outcome, c.loan)]
        /\ calls' = (calls \ {c}) \cup {Call("fetchStats", "expenses", 0, {}, 0)}
        /\ Step(Response("fetchTransactions", outcome), FetchTransactionsToast(outcome))
        /\ UNCHANGED <<storeLoans, storeTx, salesList, stats, editLoanDialog>>

\* A handler for a failed delete that shows nothing.
DeleteLoanToast_successOnly(outcome) ==
    IF outcome = "ok" THEN Toast("Success", "Loan deleted successfully!", "default")
    ELSE NoNotice

\* handleQuickDelete and EditLoanDialog.handleDelete: the toast after the
\* delete of the loan, from the try block or from the catch block.
DeleteLoanToast(outcome) ==
    IF outcome = "ok" THEN Toast("Success", "Loan deleted successfully!", "default")
    ELSE Toast("Error", "Failed to delete loan.", "destructive")

\* handleQuickDelete(loan) up to its first await: the Delete button is on the
\* card of every listed loan while allowDelete is on, and confirm() is accepted.
LoansList_handleQuickDelete(loanId) ==
    /\ loanId \in LoansList_listed
    /\ ControlGate(1, "allowDelete")
    /\ MayStart
    /\ calls' = calls \cup {Call("handleQuickDelete", "deleteTransactions", loanId, {}, 0)}
    /\ Step(NoResponse, NoNotice)
    /\ UNCHANGED <<storeLoans, storeTx, loansList, salesList, stats, editLoanDialog>>

\* handleQuickDelete after the delete of the loan's transactions: its result
\* is not read, and the loan's delete is awaited next.
LoansList_handleQuickDelete_deleteTransactions(outcome) ==
    \E c \in calls :
        /\ c.fn = "handleQuickDelete" /\ c.stage = "deleteTransactions"
        /\ storeTx' = IF outcome = "ok"
                      THEN SelectSeq(storeTx, LAMBDA t : t.loan_id # c.loan)
                      ELSE storeTx
        /\ calls' = (calls \ {c}) \cup {[c EXCEPT !.stage = "deleteLoan"]}
        /\ Step(Response("delete loan_transactions", outcome), NoNotice)
        /\ UNCHANGED <<storeLoans, loansList, salesList, stats, editLoanDialog>>

\* handleQuickDelete after the delete of the loan: the success toast and
\* onUpdate(), or the error thrown to the catch block.  A loan that still has
\* transactions is deleted together with them, or refused (outcome "error").
LoansList_handleQuickDelete_deleteLoan(outcome) ==
    \E c \in calls :
        /\ c.fn = "handleQuickDelete" /\ c.stage = "deleteLoan"
        /\ IF outcome = "ok"
           THEN /\ storeLoans' = SelectSeq(storeLoans, LAMBDA l : l.id # c.loan)
                /\ storeTx' = SelectSeq(storeTx, LAMBDA t : t.loan_id # c.loan)
                /\ calls' = (calls \ {c}) \cup {Call("fetchStats", "expenses", 0, {}, 0)}
                /\ Step(Response("delete loans", "ok"), DeleteLoanToast("ok"))
           ELSE /\ calls' = calls \ {c}
                /\ Step(Response("delete loans", "error"), DeleteLoanToast("error"))
                /\ UNCHANGED <<storeLoans, storeTx>>
        /\ UNCHANGED <<loansList, salesList, stats, editLoanDialog>>

\* handleEditLoan(loan): the Edit button on the card of a listed loan, shown
\* while allowEdit is on, selects the loan and opens EditLoanDialog.
LoansList_handleEditLoan(loanId) ==
    /\ loanId \in LoansList_listed
    /\ ControlGate(1, "allowEdit")
    /\ loansList' = [loansList EXCEPT !.selectedLoan = loanId, !.editDialogOpen = TRUE]
    /\ Step(NoResponse, NoNotice)
    /\ UNCHANGED <<storeLoans, storeTx, salesList, stats, calls, editLoanDialog>>

\* EditLoanDialog.handleDelete up to its first await: the Delete button is in
\* the open dialog while allowDelete is on and is disabled while loading;
\* confirm() is accepted and setLoading(true) runs.
EditLoanDialog_handleDelete ==
    /\ loansList.editDialogOpen
    /\ loansList.selectedLoan # 0
    /\ ControlGate(1, "allowDelete")
    /\ ~editLoanDialog.loading
    /\ MayStart
    /\ editLoanDialog' = [editLoanDialog EXCEPT !.loading = TRUE]
    /\ calls' = calls \cup
           {Call("handleDelete", "deleteTransactions", loansList.selectedLoan, {}, 0)}
    /\ Step(NoResponse, NoNotice)
    /\ UNCHANGED <<storeLoans, storeTx, loansList, salesList, stats>>

\* handleDelete after the delete of the loan's transactions: its result is
\* not read, and the loan's delete is awaited next.
EditLoanDialog_handleDelete_deleteTransactions(outcome) ==
    \E c \in calls :
        /\ c.fn = "handleDelete" /\ c.stage = "deleteTransactions"
        /\ storeTx' = IF outcome = "ok"
                      THEN SelectSeq(storeTx, LAMBDA t : t.loan_id # c.loan)
                      ELSE storeTx
        /\ calls' = (calls \ {c}) \cup {[c EXCEPT !.stage = "deleteLoan"]}
        /\ Step(Response("delete loan_transactions", outcome), NoNotice)
        /\ UNCHANGED <<storeLoans, loansList, salesList, stats, editLoanDialog>>

\* handleDelete after the delete of the loan: the success toast,
\* onLoanUpdated() (Dashboard.fetchStats) and onOpenChange(false), or the
\* error thrown to the catch block; finally setLoading(false).
EditLoanDialog_handleDelete_deleteLoan(outcome) ==
    \E c \in calls :
        /\ c.fn = "handleDelete" /\ c.stage = "deleteLoan"
        /\ IF outcome = "ok"
           THEN /\ storeLoans' = SelectSeq(storeLoans, LAMBDA l : l.id # c.loan)
                /\ storeTx' = SelectSeq(storeTx, LAMBDA t : t.loan_id # c.loan)
                /\ calls' = (calls \ {c}) \cup {Call("fetchStats", "expenses", 0, {}, 0)}
                /\ loansList' = [loansList EXCEPT !.editDialogOpen = FALSE]
                /\ Step(Response("delete loans", "ok"), DeleteLoanToast("ok"))
           ELSE /\ calls' = calls \ {c}
                /\ Step(Response("delete loans", "error"), DeleteLoanToast("error"))
                /\ UNCHANGED <<storeLoans, storeTx, loansList>>
        /\ editLoanDialog' = [editLoanDialog EXCEPT !.loading = FALSE]
        /\ UNCHANGED <<salesList, stats>>

\* Dashboard.fetchStats after each of its three selects.  Only  data  is read
\* from a response: after an error it is undefined and the total is 0.  The
\* expenses table is not modelled; c.n carries the number of loans between stages.
Dashboard_fetchStats(outcome) ==
    \E c \in calls :
        /\ c.fn = "fetchStats"
        /\ \/ /\ c.stage = "expenses"
              /\ calls' = (calls \ {c}) \cup {[c EXCEPT !.stage = "loans"]}
              /\ Step(Response("select expenses", outcome), NoNotice)
              /\ UNCHANGED stats
           \/ /\ c.stage = "loans"
              /\ calls' = (calls \ {c}) \cup
                     {[c EXCEPT !.stage = "transactions",
                                !.n = IF outcome = "ok" THEN Len(storeLoans) ELSE 0]}
              /\ Step(Response("select loans", outcome), NoNotice)
              /\ UNCHANGED stats
           \/ /\ c.stage = "transactions"
              /\ calls' = calls \ {c}
              /\ stats' = [totalLoaned |-> 100 * c.n,
                           activeLoans |-> c.n,
                           totalReceived |-> IF outcome = "ok" THEN SumAmount(storeTx) ELSE 0]
              /\ Step(Response("select loan_transactions", outcome), NoNotice)
        /\ UNCHANGED <<storeLoans, storeTx, loansList, salesList, editLoanDialog>>

\* The Sales tab is opened: SalesList mounts and its effect calls fetchSales,
\* which sets loading before its await.
SalesList_mount ==
    /\ Call("fetchSales", "select", 0, {}, 0) \notin calls
    /\ MayStart
    /\ salesList' = [sales |-> <<>>, loading |-> TRUE]
    /\ calls' = calls \cup {Call("fetchSales", "select", 0, {}, 0)}
    /\ Step(NoResponse, NoNotice)
    /\ UNCHANGED <<storeLoans, storeTx, loansList, stats, editLoanDialog>>

\* fetchSales after its select: the error is logged to the console, or the
\* rows are set; then setLoading(false).
SalesList_fetchSales(outcome) ==
    LET c == Call("fetchSales", "select", 0, {}, 0)
    IN  /\ c \in calls
        /\ salesList' = [sales |-> IF outcome = "ok" THEN StoreSales ELSE salesList.sales,
                         loading |-> FALSE]
        /\ calls' = calls \ {c}
        /\ Step(Response("select sales", outcome), NoNotice)
        /\ UNCHANGED <<storeLoans, storeTx, loansList, stats, editLoanDialog>>

NoStats == [totalLoaned |-> 0, activeLoans |-> 0, totalReceived |-> 0]

\* The tables hold MaxLoans loans and no payment yet; the Dashboard has just
\* mounted with the Loans tab open: fetchStats and fetchLoans are awaited.
InitLoans ==
    /\ storeLoans = [i \in 1 .. MaxLoans |-> StoreLoanRow(i)]
    /\ storeTx = <<>>
    /\ loansList = LoansList_mounted
    /\ salesList = [sales |-> <<>>, loading |-> TRUE]
    /\ stats = NoStats
    /\ calls = {Call("fetchLoans", "select", 0, {}, 0), Call("fetchStats", "expenses", 0, {}, 0)}
    /\ response = NoResponse
    /\ toast = NoNotice
    /\ anyError = FALSE
    /\ editLoanDialog = [loading |-> FALSE]

IdleLoans ==
    /\ storeLoans = <<>>
    /\ storeTx = <<>>
    /\ loansList = [LoansList_mounted EXCEPT !.loading = FALSE]
    /\ salesList = [sales |-> <<>>, loading |-> FALSE]
    /\ stats = NoStats
    /\ calls = {}
    /\ response = NoResponse
    /\ toast = NoNotice
    /\ anyError = FALSE
    /\ editLoanDialog = [loading |-> FALSE]

(***************************************************************************)
(* CustomerStatement: the loans and payments of one customer as a ledger   *)
(* of dated entries with a running balance, over an optional date range.   *)
(* Dates are day numbers; 0 stands for the empty string of an unset bound. *)
(***************************************************************************)
StatementDays == 1 .. MaxStatementDay
RangeDates == {0, 2}
StatementCustomers == {1, 2}

\* Array.prototype.sort with the comparator a.key - b.key: ascending and
\* stable.
RECURSIVE InsertByKey(_, _)
InsertByKey(p, sorted) ==
    IF sorted = <<>> THEN <<p>>
    ELSE IF sorted[Len(sorted)].key <= p.key THEN Append(sorted, p)
    ELSE Append(InsertByKey(p, SubSeq(sorted, 1, Len(sorted) - 1)), sorted[Len(sorted)])

RECURSIVE SortByKey(_)
SortByKey(pairs) ==
    IF pairs = <<>> THEN <<>>
    ELSE InsertByKey(pairs[Len(pairs)], SortByKey(SubSeq(pairs, 1, Len(pairs) - 1)))

Reverse(s) == [i \in 1 .. Len(s) |-> s[Len(s) + 1 - i]]

\* A sort that leaves the array as it is.
SortEntriesByDate_unsorted(entries) == entries

\* allEntries.sort((a, b) => new Date(a.date).getTime() - new Date(b.date).getTime())
SortEntriesByDate(entries) ==
    LET keyed == [i \in 1 .. Len(entries) |-> [key |-> entries[i].date, row |-> entries[i]]]
        sorted == SortByKey(keyed)
    IN  [i \in 1 .. Len(sorted) |-> sorted[i].row]

\* isInRange of generateStatement: an unset bound does not restrict.
CustomerStatement_isInRange(date, startDate, endDate) ==
    /\ (startDate = 0 \/ date >= startDate)
    /\ (endDate = 0 \/ date <= endDate)

\* The two forEach loops of generateStatement: a disbursement per loan in
\* range, then a payment per transaction in range, balance still 0.
CustomerStatement_allEntries(loans, transactions, startDate, endDate) ==
    LET inLoans == SelectSeq(loans, LAMBDA l :
                       CustomerStatement_isInRange(l.loan_date, startDate, endDate))
        inTx == SelectSeq(transactions, LAMBDA t :
                       CustomerStatement_isInRange(t.payment_date, startDate, endDate))
    IN  [i \in 1 .. Len(inLoans) |->
            [date |-> inLoans[i].loan_date, reference |-> inLoans[i].id,
             debit |-> inLoans[i].principal_amount, credit |-> 0, balance |-> 0,
             type |-> "loan_disbursement"]]
        \o
        [i \in 1 .. Len(inTx) |->
            [date |-> inTx[i].payment_date, reference |-> inTx[i].id,
             debit |-> 0, credit |-> inTx[i].amount, balance |-> 0,
             type |-> "payment_received"]]

\* runningBalance of generateStatement after the first i sorted entries.
RECURSIVE CustomerStatement_runningBalance(_, _)
CustomerStatement_runningBalance(entries, i) ==
    IF i = 0 THEN 0
    ELSE LET before == CustomerStatement_runningBalance(entries, i - 1)
             entry == entries[i]
         IN  IF entry.type = "loan_disbursement" THEN before + entry.debit
             ELSE IF entry.type = "payment_received" THEN before - entry.credit
             ELSE before

\* generateStatement: collect, sort by date, fill in the running balance.
CustomerStatement_generateStatement(loans, transactions, startDate, endDate) ==
    LET allEntries == SortEntriesByDate(
                          CustomerStatement_allEntries(loans, transactions, startDate, endDate))
    IN  [i \in 1 .. Len(allEntries) |->
            [allEntries[i] EXCEPT !.balance = CustomerStatement_runningBalance(allEntries, i)]]

\* The effect on [loans, transactions, startDate, endDate]: it runs after
\* every render in which one of them changed, and generates the statement
\* only while both arrays are non-empty.
CustomerStatement_effect(cs) ==
    IF Len(cs.loans) > 0 /\ Len(cs.transactions) > 0
    THEN [cs EXCEPT !.statement =
             CustomerStatement_generateStatement(cs.loans, cs.transactions,
                                                 cs.startDate, cs.endDate)]
    ELSE cs

\* The select on loans: the customer's loans, latest loan_date first.
StatementStore_loans(customer) ==
    LET mine == SelectSeq(stStore.loans, LAMBDA l : l.customer_id = customer)
        keyed == [i \in 1 .. Len(mine) |-> [key |-> mine[i].loan_date, row |-> mine[i]]]
        sorted == Reverse(SortByKey(keyed))
    IN  [i \in 1 .. Len(sorted) |-> sorted[i].row]

\* The select on loan_transactions: the payments of the given loans, earliest
\* payment_date first.
StatementStore_transactions(loanIds) ==
    LET mine == SelectSeq(stStore.transactions, LAMBDA t : t.loan_id \in loanIds)
        keyed == [i \in 1 .. Len(mine) |-> [key |-> mine[i].payment_date, row |-> mine[i]]]
        sorted == SortByKey(keyed)
    IN  [i \in 1 .. Len(sorted) |-> sorted[i].row]

StatementLoanRows(n) ==
    [1 .. n -> [customer_id : StatementCustomers, loan_date : StatementDays]]

StatementTxRows(n) ==
    [1 .. n -> [loan_id : 1 .. MaxStatementLoans, payment_date : StatementDays]]

\* The tables of the statement: loan i is of 100 * i, payment i of 40 * i.
StatementStores ==
    { [loans |-> [i \in 1 .. Len(ls) |->
                     [id |-> i, customer_id |-> ls[i].customer_id,
                      principal_amount |-> 100 * i, loan_date |-> ls[i].loan_date]],
       transactions |-> [i \in 1 .. Len(ts) |->
                     [id |-> 10 + i, loan_id |-> ts[i].loan_id, amount |-> 40 * i,
                      payment_date |-> ts[i].payment_date]]] :
        ls \in UNION {StatementLoanRows(n) : n \in 0 .. MaxStatementLoans},
        ts \in UNION {StatementTxRows(n) : n \in 0 .. MaxStatementTx} }

NoStatementToast == ""

\* useState initial values of CustomerStatement, for the given customer prop.
CustomerStatement_mounted(customer) ==
    [customer |-> customer, loans |-> <<>>, transactions |-> <<>>, statement |-> <<>>,
     startDate |-> 0, endDate |-> 0, loading |-> FALSE, toast |-> NoStatementToast]

\* The effect on [user, customer.id] calls fetchCustomerData: setLoading(true)
\* and the select on loans is awaited.
CustomerStatement_fetchCustomerData(cs) ==
    /\ custStatement' = [cs EXCEPT !.loading = TRUE, !.toast = NoStatementToast]
    /\ stCalls' = stCalls \cup {[customer |-> cs.customer, stage |-> "loans", ids |-> {}]}

\* The parent renders the component with another customer.
CustomerStatement_setCustomer(customer) ==
    /\ customer # custStatement.customer
    /\ Cardinality(stCalls) < MaxStatementCalls
    /\ CustomerStatement_fetchCustomerData([custStatement EXCEPT !.customer = customer])
    /\ UNCHANGED stStore

\* fetchCustomerData after the select on loans: setLoans and the select on
\* loan_transactions for those loans, or the catch block and finally.
CustomerStatement_fetchCustomerData_loans(outcome) ==
    \E c \in stCalls :
        /\ c.stage = "loans"
        /\ IF outcome = "ok"
           THEN LET loansData == StatementStore_loans(c.customer)
                IN  /\ custStatement' = CustomerStatement_effect(
                           [custStatement EXCEPT !.loans = loansData,
                                                 !.toast = NoStatementToast])
                    /\ stCalls' = (stCalls \ {c}) \cup
                           {[c EXCEPT !.stage = "transactions",
                                      !.ids = {loansData[i].id : i \in 1 .. Len(loansData)}]}
           ELSE /\ custStatement' = [custStatement EXCEPT
                       !.loading = FALSE, !.toast = "Failed to fetch customer data"]
                /\ stCalls' = stCalls \ {c}
        /\ UNCHANGED stStore

\* fetchCustomerData after the select on loan_transactions: setTransactions,
\* or the catch block; finally setLoading(false).
CustomerStatement_fetchCustomerData_transactions(outcome) ==
    \E c \in stCalls :
        /\ c.stage = "transactions"
        /\ custStatement' =
               IF outcome = "ok"
               THEN CustomerStatement_effect(
                        [custStatement EXCEPT
                            !.transactions = StatementStore_transactions(c.ids),
                            !.loading = FALSE, !.toast = NoStatementToast])
               ELSE [custStatement EXCEPT
                        !.loading = FALSE, !.toast = "Failed to fetch customer data"]
        /\ stCalls' = stCalls \ {c}
        /\ UNCHANGED stStore

\* The From Date input.
CustomerStatement_setStartDate(date) ==
    /\ date # custStatement.startDate
    /\ custStatement' = CustomerStatement_effect(
           [custStatement EXCEPT !.startDate = date, !.toast = NoStatementToast])
    /\ UNCHANGED <<stStore, stCalls>>

\* The To Date input.
CustomerStatement_setEndDate(date) ==
    /\ date # custStatement.endDate
    /\ custStatement' = CustomerStatement_effect(
           [custStatement EXCEPT !.endDate = date, !.toast = NoStatementToast])
    /\ UNCHANGED <<stStore, stCalls>>

\* The component has just mounted for customer 1 and its first fetch is awaited.
InitStatement ==
    /\ stStore \in StatementStores
    /\ custStatement = [CustomerStatement_mounted(1) EXCEPT !.loading = TRUE]
    /\ stCalls = {[customer |-> 1, stage |-> "loans", ids |-> {}]}

IdleStatement ==
    /\ stStore = [loans |-> <<>>, transactions |-> <<>>]
    /\ custStatement = CustomerStatement_mounted(1)
    /\ stCalls = {}

(***************************************************************************)
(* SaleCustomerStatement.fetchStatement from the rows its selects return.  *)
(***************************************************************************)
RECURSIVE SumField(_, _, _)
SumField(rows, field, i) ==
    IF i = 0 THEN 0 ELSE SumField(rows, field, i - 1) + rows[i][field]

\* The two forEach loops: an entry per sale, then one per payment, each with
\* the balance reached in fetch order.
SaleCustomerStatement_allEntries(sales, transactions) ==
    [i \in 1 .. Len(sales) |->
        [date |-> sales[i].sale_date, debit |-> sales[i].sale_amount, credit |-> 0,
         balance |-> SumField(sales, "sale_amount", i)]]
    \o
    [i \in 1 .. Len(transactions) |->
        [date |-> transactions[i].payment_date, debit |-> 0,
         credit |-> transactions[i].amount,
         balance |-> SumField(sales, "sale_amount", Len(sales))
                     - SumField(transactions, "amount", i)]]

\* runningBalance of fetchStatement after the first i sorted entries.
RECURSIVE SaleCustomerStatement_runningBalance(_, _)
SaleCustomerStatement_runningBalance(entries, i) ==
    IF i = 0 THEN 0
    ELSE SaleCustomerStatement_runningBalance(entries, i - 1)
         + (entries[i].debit - entries[i].credit)

\* The entries fetchStatement passes to setEntries.
SaleCustomerStatement_entries(sales, transactions) ==
    LET allEntries == SortEntriesByDate(SaleCustomerStatement_allEntries(sales, transactions))
    IN  [i \in 1 .. Len(allEntries) |->
            [allEntries[i] EXCEPT !.balance = SaleCustomerStatement_runningBalance(allEntries, i)]]

\* The rows of the sales tables with the dates and amounts of the given loan
\* rows and payment rows.
AsSales(loans) ==
    [i \in 1 .. Len(loans) |->
        [id |-> loans[i].id, sale_amount |-> loans[i].principal_amount,
         sale_date |-> loans[i].loan_date]]

AsSaleTransactions(transactions) ==
    [i \in 1 .. Len(transactions) |->
        [id |-> transactions[i].id, amount |-> transactions[i].amount,
         payment_date |-> transactions[i].payment_date]]

\* SpecEntries: both statements computed from rows in any order and any date
\* range.
EntriesInputs ==
    { [loans |-> s.loans, transactions |-> s.transactions,
       startDate |-> startDate, endDate |-> endDate] :
        s \in {t \in StatementStores :
                  \A i \in 1 .. Len(t.loans) : t.loans[i].customer_id = 1},
        startDate \in RangeDates, endDate \in RangeDates }

\* SaleCustomerDetails with the paid total left out of the Outstanding figure.
SaleCustomerDetails_outstanding_unpaid(sales, transactions) ==
    SumField(sales, "sale_amount", Len(sales))

\* SaleCustomerDetails: totalSaleAmount, totalPaid and outstanding, from the
\* sales and transactions state.
SaleCustomerDetails_outstanding(sales, transactions) ==
    LET totalSaleAmount == SumField(sales, "sale_amount", Len(sales))
        totalPaid == SumField(transactions, "amount", Len(transactions))
    IN  totalSaleAmount - totalPaid

NoEntries ==
    [done |-> FALSE, customerStatement |-> <<>>, saleStatement |-> <<>>, saleOutstanding |-> 0]

InitEntries ==
    /\ entriesInput \in EntriesInputs
    /\ entriesResult = NoEntries

EvalEntries ==
    /\ ~entriesResult.done
    /\ entriesResult' =
           [done |-> TRUE,
            customerStatement |->
                CustomerStatement_generateStatement(entriesInput.loans,
                    entriesInput.transactions, entriesInput.startDate, entriesInput.endDate),
            saleStatement |->
                SaleCustomerStatement_entries(AsSales(entriesInput.loans),
                    AsSaleTransactions(entriesInput.transactions)),
            \* SaleCustomerDetails fetches the same rows, newest first
            saleOutstanding |->
                SaleCustomerDetails_outstanding(Reverse(AsSales(entriesInput.loans)),
                    Reverse(AsSaleTransactions(entriesInput.transactions)))]
    /\ UNCHANGED entriesInput

IdleEntries ==
    /\ entriesInput = [loans |-> <<>>, transactions |-> <<>>, startDate |-> 0, endDate |-> 0]
    /\ entriesResult = NoEntries

(***************************************************************************)
(* DaywiseCustomerManager: one customer's row with its payment input.      *)
(* fetchCustomers attaches an outstanding_balance to each loan;            *)
(* handlePaymentSubmit turns the entered amount into loan_transactions.    *)
(***************************************************************************)
\* What the payment input can hold: '' or the text of a number.
PaymentInputs == {"", "0", "-50", "50", "150", "400"}

\* parseFloat on the texts above.
parseFloat(amountStr) ==
    CASE amountStr = "0" -> 0
      [] amountStr = "-50" -> 0 - 50
      [] amountStr = "50" -> 50
      [] amountStr = "150" -> 150
      [] amountStr = "400" -> 400

\* The customer's loans in the loans table: loan i is of 100 * i.
ManagerLoans ==
    UNION { [1 .. n -> BOOLEAN] : n \in 0 .. MaxManagerLoans }

ManagerStoreLoans(active) ==
    [i \in 1 .. Len(active) |->
        [id |-> i, customer_id |-> 1, principal_amount |-> 100 * i, is_active |-> active[i]]]

\* fetchCustomers, customersWithBalances: the customer's loans, each with its
\* outstanding_balance.
DaywiseCustomerManager_loansWithBalance ==
    [i \in 1 .. Len(dcmStore.loans) |->
        [id |-> dcmStore.loans[i].id,
         is_active |-> dcmStore.loans[i].is_active,
         principal_amount |-> dcmStore.loans[i].principal_amount,
         outstanding_balance |->
             DaywiseCustomerManager_outstandingBalance(dcmStore.loans[i],
                                                       dcmStore.transactions)]]

\* handlePaymentSubmit: the amount of the transaction pushed for one loan.
DaywiseCustomerManager_transactionAmount(loan, amount) ==
    IF loan.outstanding_balance > amount THEN amount ELSE loan.outstanding_balance

\* handlePaymentSubmit, the for loop over customer.loans: a transaction for
\* every active loan with a positive outstanding_balance.
DaywiseCustomerManager_transactions(loans, amount) ==
    LET payable == SelectSeq(loans, LAMBDA l : l.is_active /\ l.outstanding_balance > 0)
    IN  [i \in 1 .. Len(payable) |->
            [loan_id |-> payable[i].id,
             amount |-> DaywiseCustomerManager_transactionAmount(payable[i], amount)]]

NoManagerToast == ""

NoSubmission == [inserted |-> FALSE, amount |-> 0, loans |-> <<>>, rows |-> <<>>]

\* The payment input's onChange.
DaywiseCustomerManager_handlePaymentInputChange(amountStr) ==
    /\ amountStr # dcm.paymentInput
    /\ dcm' = [dcm EXCEPT !.paymentInput = amountStr, !.toast = NoManagerToast]
    /\ UNCHANGED <<dcmStore, dcmCalls, dcmLast>>

\* handlePaymentSubmit(customer) up to its await: the three early returns
\* with their toasts, or the insert of the transactions.
DaywiseCustomerManager_handlePaymentSubmit ==
    /\ dcmCalls = {}
    /\ LET amountStr == dcm.paymentInput
       IN  IF amountStr = "" \/ parseFloat(amountStr) <= 0
           THEN /\ dcm' = [dcm EXCEPT !.toast = "Invalid Amount"]
                /\ UNCHANGED dcmCalls
           ELSE IF Len(dcm.loans) = 0
           THEN /\ dcm' = [dcm EXCEPT !.toast = "No Loans Found"]
                /\ UNCHANGED dcmCalls
           ELSE LET amount == parseFloat(amountStr)
                    transactions == DaywiseCustomerManager_transactions(dcm.loans, amount)
                IN  IF Len(transactions) = 0
                    THEN /\ dcm' = [dcm EXCEPT !.toast = "No Active Loans"]
                         /\ UNCHANGED dcmCalls
                    ELSE /\ dcm' = [dcm EXCEPT !.toast = NoManagerToast]
                         /\ dcmCalls' = {[fn |-> "handlePaymentSubmit", stage |-> "insert",
                                          amount |-> amount, loans |-> dcm.loans,
                                          rows |-> transactions]}
    /\ UNCHANGED <<dcmStore, dcmLast>>

\* handlePaymentSubmit after the insert: the rows are stored together, the
\* input is cleared, the toast shown and fetchCustomers called; or the catch
\* block.
DaywiseCustomerManager_handlePaymentSubmit_insert(outcome) ==
    \E c \in dcmCalls :
        /\ c.stage = "insert"
        /\ outcome = "ok" => Len(dcmStore.transactions) + Len(c.rows) <= MaxManagerTx
        /\ IF outcome = "ok"
           THEN /\ dcmStore' = [dcmStore EXCEPT !.transactions = @ \o c.rows]
                /\ dcm' = [dcm EXCEPT !.paymentInput = "", !.toast = "Payment Recorded",
                                      !.loading = TRUE]
                /\ dcmCalls' = {[c EXCEPT !.fn = "fetchCustomers", !.stage = "customers"]}
                /\ dcmLast' = [inserted |-> TRUE, amount |-> c.amount, loans |-> c.loans,
                               rows |-> c.rows]
           ELSE /\ dcm' = [dcm EXCEPT !.toast = "Failed to record payment"]
                /\ dcmCalls' = {}
                /\ UNCHANGED <<dcmStore, dcmLast>>

\* fetchCustomers after the select on customers and after the select on
\* loans: setCustomers with the balances, or the catch block; finally
\* setLoading(false).
DaywiseCustomerManager_fetchCustomers(outcome) ==
    \E c \in dcmCalls :
        /\ c.fn = "fetchCustomers"
        /\ IF outcome # "ok"
           THEN /\ dcm' = [dcm EXCEPT !.toast = "Failed to fetch customers",
                                      !.loading = FALSE]
                /\ dcmCalls' = {}
           ELSE IF c.stage = "customers"
           THEN /\ dcm' = [dcm EXCEPT !.toast = NoManagerToast]
                /\ dcmCalls' = {[c EXCEPT !.stage = "loans"]}
           ELSE /\ dcm' = [dcm EXCEPT !.loans = DaywiseCustomerManager_loansWithBalance,
                                      !.toast = NoManagerToast, !.loading = FALSE]
                /\ dcmCalls' = {}
        /\ UNCHANGED <<dcmStore, dcmLast>>

\* The manager has mounted and its first fetchCustomers is awaited.
InitManager ==
    /\ \E active \in ManagerLoans :
           dcmStore = [loans |-> ManagerStoreLoans(active), transactions |-> <<>>]
    /\ dcm = [loans |-> <<>>, paymentInput |-> "", loading |-> TRUE, toast |-> NoManagerToast]
    /\ dcmCalls = {[fn |-> "fetchCustomers", stage |-> "customers", amount |-> 0,
                    loans |-> <<>>, rows |-> <<>>]}
    /\ dcmLast = NoSubmission

IdleManager ==
    /\ dcmStore = [loans |-> <<>>, transactions |-> <<>>]
    /\ dcm = [loans |-> <<>>, paymentInput |-> "", loading |-> FALSE, toast |-> NoManagerToast]
    /\ dcmCalls = {}
    /\ dcmLast = NoSubmission

(***************************************************************************)
(* SpecDaywise: the customers table, AddCustomerDialog writing to it,      *)
(* DaywisePayment fetching from it, and the day of the week advancing.     *)
(***************************************************************************)
InitDaywise ==
    /\ storeCustomers = <<>>
    /\ dwCustomers = <<>>
    /\ dwLoading = TRUE
    /\ dwNotice = "none"
    /\ dwToday \in 0 .. 6

\* AddCustomerDialog.handleSubmit: insert a customers row.
AddCustomerDialog_handleSubmit(day) ==
    /\ Len(storeCustomers) < MaxCustomers
    /\ storeCustomers' = Append(storeCustomers, [id |-> Len(storeCustomers) + 1, payment_day |-> day])
    /\ UNCHANGED <<dwCustomers, dwLoading, dwNotice, dwToday>>

\* DaywisePayment.fetchCustomers up to its first await: setLoading(true).
DaywisePayment_fetchCustomers_start ==
    /\ ~dwLoading
    /\ dwLoading' = TRUE
    /\ UNCHANGED <<storeCustomers, dwCustomers, dwNotice, dwToday>>

\* DaywisePayment.fetchCustomers after its awaits: the rows are set, or the
\* error is thrown and toasted; finally setLoading(false).
DaywisePayment_fetchCustomers_done(ok) ==
    /\ dwLoading
    /\ IF ok
       THEN dwCustomers' = storeCustomers /\ UNCHANGED dwNotice
       ELSE dwNotice' = "destructive" /\ UNCHANGED dwCustomers
    /\ dwLoading' = FALSE
    /\ UNCHANGED <<storeCustomers, dwToday>>

\* Midnight passes: getDay() returns the next day of the week.
NextDay ==
    /\ dwToday' = (dwToday + 1) % 7
    /\ UNCHANGED <<storeCustomers, dwCustomers, dwLoading, dwNotice>>

IdleDaywise ==
    /\ storeCustomers = <<>>
    /\ dwCustomers = <<>>
    /\ dwLoading = TRUE
    /\ dwNotice = "none"
    /\ dwToday = 0

(***************************************************************************)
(* The loan statement of the loans list with statements: what              *)
(* generateLoanStatement and generatePDFStatement print for one loan.      *)
(***************************************************************************)
TransactionTypes == {"principal", "interest", "mixed"}

\* loanTransactions.filter(t => t.transaction_type === type)
\*                 .reduce((sum, t) => sum + t.amount, 0) || 0
LoanStatement_totalOfType(loanTransactions, type) ==
    SumAmount(SelectSeq(loanTransactions, LAMBDA t : t.transaction_type = type))

\* The figures generateLoanStatement derives: the balance from the component's
\* loans and transactions, the totals from the rows it has just fetched.
LoansList_generateLoanStatement(loans, transactions, loan, loanTransactions) ==
    LET balance == LoansList_calculateLoanBalance(loans, transactions, loan.id)
        totalInterestPaid == LoanStatement_totalOfType(loanTransactions, "interest")
        totalPrincipalPaid == LoanStatement_totalOfType(loanTransactions, "principal")
        totalPaid == totalInterestPaid + totalPrincipalPaid
    IN  [principal |-> loan.principal_amount,
         totalInterestPaid |-> totalInterestPaid,
         totalPrincipalPaid |-> totalPrincipalPaid,
         totalPaid |-> totalPaid,
         balance |-> balance,
         status |-> IF balance <= 0 THEN "CLOSED" ELSE "ACTIVE",
         rows |-> Len(loanTransactions)]

\* generatePDFStatement derives its figures by the same statements.
LoansList_generatePDFStatement(loans, transactions, loan, loanTransactions) ==
    LET balance == LoansList_calculateLoanBalance(loans, transactions, loan.id)
        totalInterestPaid == LoanStatement_totalOfType(loanTransactions, "interest")
        totalPrincipalPaid == LoanStatement_totalOfType(loanTransactions, "principal")
        totalPaid == totalInterestPaid + totalPrincipalPaid
    IN  [principal |-> loan.principal_amount,
         totalInterestPaid |-> totalInterestPaid,
         totalPrincipalPaid |-> totalPrincipalPaid,
         totalPaid |-> totalPaid,
         balance |-> balance,
         status |-> IF balance <= 0 THEN "CLOSED" ELSE "ACTIVE",
         rows |-> Len(loanTransactions)]

\* The loan whose statement is asked for, and its recorded payments.
LoanStatementLoans ==
    { [id |-> 1, customer_id |-> 1, principal_amount |-> 100 * p,
       interest_type |-> "none", interest_rate |-> 0, loan_date |-> FirstDay,
       is_active |-> TRUE] : p \in 1 .. 2 }

LoanStatementTxRows ==
    [loan_id : {1}, amount : {50, 100}, transaction_type : TransactionTypes]

NoLoanStatement == [done |-> FALSE, text |-> <<>>, pdf |-> <<>>]

InitLoanStatement ==
    /\ statementLoan \in
           [loan : LoanStatementLoans,
            transactions : SeqsUpTo(LoanStatementTxRows, MaxLoanStatementTx)]
    /\ loanStatement = NoLoanStatement

\* Both statements are generated while the component's transactions are the
\* rows the select returns: the table's rows of the loan.
EvalLoanStatement ==
    /\ ~loanStatement.done
    /\ LET loan == statementLoan.loan
           transactions == statementLoan.transactions
       IN  loanStatement' =
               [done |-> TRUE,
                text |-> LoansList_generateLoanStatement(<<loan>>, transactions, loan,
                                                         transactions),
                pdf |-> LoansList_generatePDFStatement(<<loan>>, transactions, loan,
                                                       transactions)]
    /\ UNCHANGED statementLoan

IdleLoanStatement ==
    /\ statementLoan = [loan |-> CHOOSE l \in LoanStatementLoans : l.principal_amount = 100,
                        transactions |-> <<>>]
    /\ loanStatement = NoLoanStatement

(***************************************************************************)
(* The expenses table, written by AddExpenseDialog and AddEarningDialog,   *)
(* read by Dashboard.fetchStats and ExpensesListEnhanced.fetchExpenses.    *)
(***************************************************************************)
ExpenseAmounts == {10, 20}

\* Dashboard.fetchStats, total expenses: select('amount').eq('user_id', ...)
\* summed; a failed select leaves  expenses  null and the total 0.
Dashboard_totalExpenses(rows, outcome) ==
    IF outcome = "ok" THEN SumAmount(rows) ELSE 0

\* ExpensesListEnhanced.fetchExpenses: .eq('type', 'expense')
ExpensesListEnhanced_selectExpenses(rows) ==
    SelectSeq(rows, LAMBDA r : r.type = "expense")

\* ExpensesListEnhanced.totalExpenses with searchTerm, dateFrom and dateTo
\* empty: every fetched row passes the filter.
ExpensesListEnhanced_totalExpenses(expenses) == SumAmount(expenses)

\* AddExpenseDialog.handleSubmit and AddEarningDialog.handleSubmit: one row is
\* inserted with the dialog's type; on success the list's handleRefresh bumps
\* refreshKey, whose effect calls fetchExpenses. On an error nothing changes
\* but the toast.
ExpenseDialog_handleSubmit(type, amount, outcome) ==
    /\ Len(expensesStore) < MaxExpenses
    /\ IF outcome = "ok"
       THEN /\ expensesStore' = Append(expensesStore, [amount |-> amount, type |-> type])
            /\ expPending' = expPending \cup {"fetchExpenses"}
            /\ expensesList' = [expensesList EXCEPT !.loading = TRUE]
            /\ expFresh' = {}
       ELSE UNCHANGED <<expensesStore, expPending, expensesList, expFresh>>
    /\ UNCHANGED dashExpenses

AddExpenseDialog_handleSubmit(amount, outcome) ==
    ExpenseDialog_handleSubmit("expense", amount, outcome)

AddEarningDialog_handleSubmit(amount, outcome) ==
    ExpenseDialog_handleSubmit("earning", amount, outcome)

\* ExpensesListEnhanced.fetchExpenses after its await.
ExpensesListEnhanced_fetchExpenses(outcome) ==
    /\ "fetchExpenses" \in expPending
    /\ expPending' = expPending \ {"fetchExpenses"}
    /\ IF outcome = "ok"
       THEN /\ expensesList' = [expenses |-> ExpensesListEnhanced_selectExpenses(expensesStore),
                                loading |-> FALSE]
            /\ expFresh' = expFresh \cup {"list"}
       ELSE /\ expensesList' = [expensesList EXCEPT !.loading = FALSE]
            /\ UNCHANGED expFresh
    /\ UNCHANGED <<expensesStore, dashExpenses>>

\* The Dashboard is loaded: its effect calls fetchStats.
Dashboard_load ==
    /\ "fetchStats" \notin expPending
    /\ expPending' = expPending \cup {"fetchStats"}
    /\ UNCHANGED <<expensesStore, expensesList, dashExpenses, expFresh>>

\* Dashboard.fetchStats after its awaits, as far as totalExpenses goes.
Dashboard_fetchStats_expenses(outcome) ==
    /\ "fetchStats" \in expPending
    /\ expPending' = expPending \ {"fetchStats"}
    /\ dashExpenses' = Dashboard_totalExpenses(expensesStore, outcome)
    /\ expFresh' = IF outcome = "ok" THEN expFresh \cup {"stats"} ELSE expFresh \ {"stats"}
    /\ UNCHANGED <<expensesStore, expensesList>>

\* Dashboard and list mounted over an empty table, their first reads awaited.
InitExpenses ==
    /\ expensesStore = <<>>
    /\ expensesList = [expenses |-> <<>>, loading |-> TRUE]
    /\ dashExpenses = 0
    /\ expPending = {"fetchExpenses", "fetchStats"}
    /\ expFresh = {}

IdleExpenses ==
    /\ expensesStore = <<>>
    /\ expensesList = [expenses |-> <<>>, loading |-> TRUE]
    /\ dashExpenses = 0
    /\ expPending = {}
    /\ expFresh = {}

(***************************************************************************)
(* DaywiseCustomerManager.organizeCustomersData and the totals of its      *)
(* groups.  null is written "null"; the empty string is falsy as well.     *)
(***************************************************************************)
\* value || fallback
OrElse(value, fallback) == IF value \in {"null", ""} THEN fallback ELSE value

\* The position of the entry of a Map with the given key (0: no such entry).
\* A Map keeps its entries in insertion order and its keys distinct.
IndexOfKey(entries, field, key) ==
    IF \E i \in 1 .. Len(entries) : entries[i][field] = key
    THEN CHOOSE i \in 1 .. Len(entries) : entries[i][field] = key
    ELSE 0

\* The forEach body with the last push replaced by an assignment.
DaywiseCustomerManager_pushCustomer_replacing(dayGroups, customer) ==
    LET day == OrElse(customer.payment_day, "Not Set")
        address == OrElse(customer.address, "No Address")
        withDay == IF IndexOfKey(dayGroups, "paymentDay", day) = 0
                   THEN Append(dayGroups, [paymentDay |-> day, addressGroups |-> <<>>])
                   ELSE dayGroups
        d == IndexOfKey(withDay, "paymentDay", day)
        groups == withDay[d].addressGroups
        withAddress == IF IndexOfKey(groups, "address", address) = 0
                       THEN Append(groups, [address |-> address, customers |-> <<>>])
                       ELSE groups
        a == IndexOfKey(withAddress, "address", address)
    IN  [withDay EXCEPT ![d].addressGroups =
             [withAddress EXCEPT ![a].customers = <<customer>>]]

\* The forEach body of organizeCustomersData: the day's Map and the address's
\* array are created when missing, and the customer is pushed.
DaywiseCustomerManager_pushCustomer(dayGroups, customer) ==
    LET day == OrElse(customer.payment_day, "Not Set")
        address == OrElse(customer.address, "No Address")
        withDay == IF IndexOfKey(dayGroups, "paymentDay", day) = 0
                   THEN Append(dayGroups, [paymentDay |-> day, addressGroups |-> <<>>])
                   ELSE dayGroups
        d == IndexOfKey(withDay, "paymentDay", day)
        groups == withDay[d].addressGroups
        withAddress == IF IndexOfKey(groups, "address", address) = 0
                       THEN Append(groups, [address |-> address, customers |-> <<>>])
                       ELSE groups
        a == IndexOfKey(withAddress, "address", address)
    IN  [withDay EXCEPT ![d].addressGroups =
             [withAddress EXCEPT ![a].customers = Append(@, customer)]]

RECURSIVE DaywiseCustomerManager_forEachCustomer(_, _)
DaywiseCustomerManager_forEachCustomer(allCustomers, dayGroups) ==
    IF allCustomers = <<>>
    THEN dayGroups
    ELSE DaywiseCustomerManager_forEachCustomer(
             Tail(allCustomers),
             DaywiseCustomerManager_pushCustomer(dayGroups, Head(allCustomers)))

\* organizeCustomersData: the value it passes to setDayGroups.
DaywiseCustomerManager_organizeCustomersData(allCustomers) ==
    DaywiseCustomerManager_forEachCustomer(allCustomers, <<>>)

\* customer.loans.reduce((loanSum, loan) => loanSum + (loan.outstanding_balance || 0), 0)
RECURSIVE DaywiseCustomerManager_loanSum(_)
DaywiseCustomerManager_loanSum(loans) ==
    IF loans = <<>> THEN 0
    ELSE Head(loans).outstanding_balance + DaywiseCustomerManager_loanSum(Tail(loans))

RECURSIVE DaywiseCustomerManager_customersTotal(_)
DaywiseCustomerManager_customersTotal(customers) ==
    IF customers = <<>> THEN 0
    ELSE DaywiseCustomerManager_loanSum(Head(customers).loans)
         + DaywiseCustomerManager_customersTotal(Tail(customers))

\* calculateDayTotal
RECURSIVE DaywiseCustomerManager_calculateDayTotalOf(_)
DaywiseCustomerManager_calculateDayTotalOf(addressGroups) ==
    IF addressGroups = <<>> THEN 0
    ELSE DaywiseCustomerManager_customersTotal(Head(addressGroups).customers)
         + DaywiseCustomerManager_calculateDayTotalOf(Tail(addressGroups))

DaywiseCustomerManager_calculateDayTotal(dayGroup) ==
    DaywiseCustomerManager_calculateDayTotalOf(dayGroup.addressGroups)

\* calculateAddressTotal: both groups are looked up by name with find.
DaywiseCustomerManager_calculateAddressTotal(dayGroups, day, address) ==
    LET d == IndexOfKey(dayGroups, "paymentDay", day)
    IN  IF d = 0 THEN 0
        ELSE LET a == IndexOfKey(dayGroups[d].addressGroups, "address", address)
             IN  IF a = 0 THEN 0
                 ELSE DaywiseCustomerManager_customersTotal(
                          dayGroups[d].addressGroups[a].customers)

OrganizePaymentDays == {"null", "", "monday", "friday"}
OrganizeAddresses == {"null", "Ward 1"}
OrganizeLoans ==
    { <<>>, <<[outstanding_balance |-> 50]>>,
      <<[outstanding_balance |-> 0], [outstanding_balance |-> 100]>> }

\* Customer i of the fetched rows has id i.
OrganizeCustomers ==
    { [i \in 1 .. Len(rows) |->
          [id |-> i, payment_day |-> rows[i].payment_day, address |-> rows[i].address,
           loans |-> rows[i].loans]] :
      rows \in SeqsUpTo([payment_day : OrganizePaymentDays, address : OrganizeAddresses,
                         loans : OrganizeLoans], MaxOrganizeCustomers) }

NoDayGroups == [done |-> FALSE, dayGroups |-> <<>>, dayTotals |-> <<>>, addressTotals |-> <<>>]

InitOrganize ==
    /\ organizeInput \in OrganizeCustomers
    /\ organizeResult = NoDayGroups

\* organizeCustomersData is applied and the totals of the rendered groups are
\* computed from the dayGroups it set.
EvalOrganize ==
    /\ ~organizeResult.done
    /\ LET dayGroups == DaywiseCustomerManager_organizeCustomersData(organizeInput)
       IN  organizeResult' =
               [done |-> TRUE,
                dayGroups |-> dayGroups,
                dayTotals |->
                    [d \in 1 .. Len(dayGroups) |->
                        DaywiseCustomerManager_calculateDayTotal(dayGroups[d])],
                addressTotals |->
                    [d \in 1 .. Len(dayGroups) |->
                        [a \in 1 .. Len(dayGroups[d].addressGroups) |->
                            DaywiseCustomerManager_calculateAddressTotal(
                                dayGroups, dayGroups[d].paymentDay,
                                dayGroups[d].addressGroups[a].address)]]]
    /\ UNCHANGED organizeInput

IdleOrganize ==
    /\ organizeInput = <<>>
    /\ organizeResult = NoDayGroups

(***************************************************************************)
(* CustomersList.deleteCustomer, in the two variants of the component,     *)
(* over customers whose loans are repaid through LoansList.handlePayment.  *)
(***************************************************************************)
CustomerIds == 1 .. MaxListCustomers
CustomersListVariants == {"CustomersList.tsx", "part_005"}
RepaymentAmounts == {50, 100}

\* Customer 1 has one loan of 100; customer 2 has none, or one of 100 that is
\* marked inactive.
CustomersStore_loans ==
    { <<[id |-> 1, customer_id |-> 1, principal_amount |-> 100, is_active |-> TRUE]>>,
      <<[id |-> 1, customer_id |-> 1, principal_amount |-> 100, is_active |-> TRUE],
        [id |-> 2, customer_id |-> 2, principal_amount |-> 100, is_active |-> FALSE]>> }

\* select('*, loans (id, principal_amount, is_active)') on customers
CustomersStore_select(customerIds, loans) ==
    LET ids == [i \in 1 .. Cardinality(customerIds) |->
                   CHOOSE id \in customerIds :
                       Cardinality({j \in customerIds : j < id}) = i - 1]
    IN  [i \in 1 .. Len(ids) |->
            [id |-> ids[i],
             loans |-> SelectSeq(loans, LAMBDA l : l.customer_id = ids[i])]]

\* is_active, and principal_amount minus the recorded payments, for each loan
\* of the customer.
CustomersStore_balances(loans, transactions, customerId) ==
    LET own == SelectSeq(loans, LAMBDA l : l.customer_id = customerId)
    IN  [i \in 1 .. Len(own) |->
            [is_active |-> own[i].is_active,
             balance |-> own[i].principal_amount
                 - SumAmount(SelectSeq(transactions, LAMBDA t : t.loan_id = own[i].id))]]

\* customers.find(c => c.id === id)?.loans?.some(loan => loan.is_active)
CustomersList_hasActiveLoans(customers, id) ==
    \E i \in 1 .. Len(customers) :
        /\ customers[i].id = id
        /\ \E k \in 1 .. Len(customers[i].loans) : customers[i].loans[k].is_active

NoDeleteLog == [id |-> 0, refused |-> FALSE, balances |-> <<>>, fresh |-> FALSE]

\* CustomersList.fetchCustomers is called (mount, or the list is reopened).
CustomersList_fetchCustomers ==
    /\ \A c \in cuCalls : c.fn # "fetchCustomers"
    /\ cuCalls' = cuCalls \cup {[fn |-> "fetchCustomers", stage |-> "select", id |-> 0]}
    /\ UNCHANGED <<cuCustomers, cuLoans, cuTx, customersList, cuToast, deleteLog>>

\* fetchCustomers after its select.
CustomersList_fetchCustomers_select(outcome) ==
    \E c \in cuCalls :
        /\ c.fn = "fetchCustomers"
        /\ cuCalls' = cuCalls \ {c}
        /\ IF outcome = "ok"
           THEN /\ customersList' = [customers |-> CustomersStore_select(cuCustomers, cuLoans),
                                     loading |-> FALSE]
                /\ UNCHANGED cuToast
           ELSE /\ customersList' = [customersList EXCEPT !.loading = FALSE]
                /\ cuToast' = Toast("Error", "Failed to fetch customers", "destructive")
        /\ UNCHANGED <<cuCustomers, cuLoans, cuTx, deleteLog>>

\* LoansList.handlePayment as far as the tables go: one loan_transactions row
\* is inserted for the loan; the loans row is not written.
LoansList_handlePayment_stored(loanId, amount, outcome) ==
    /\ Len(cuTx) < MaxRepayments
    /\ \E i \in 1 .. Len(cuLoans) : cuLoans[i].id = loanId
    /\ IF outcome = "ok"
       THEN /\ cuTx' = Append(cuTx, [loan_id |-> loanId, amount |-> amount])
            /\ cuToast' = Toast("Payment recorded",
                                "The payment has been successfully recorded.", "default")
       ELSE /\ cuToast' = Toast("Error", "Failed to record payment", "destructive")
            /\ UNCHANGED cuTx
    /\ UNCHANGED <<cuCustomers, cuLoans, customersList, cuCalls, deleteLog>>

\* deleteCustomer(id) up to its first await: with an active loan in the local
\* list it shows the toast and returns; otherwise part_005 first selects the
\* customer's transactions and CustomersList.tsx deletes at once.
CustomersList_deleteCustomer(id, variant) ==
    /\ cuCalls = {}
    /\ \E i \in 1 .. Len(customersList.customers) : customersList.customers[i].id = id
    /\ deleteLog' = [id |-> id,
                     refused |-> CustomersList_hasActiveLoans(customersList.customers, id),
                     balances |-> CustomersStore_balances(cuLoans, cuTx, id),
                     fresh |-> customersList.customers
                                   = CustomersStore_select(cuCustomers, cuLoans)]
    /\ IF CustomersList_hasActiveLoans(customersList.customers, id)
       THEN /\ cuToast' = Toast("Cannot delete customer",
                                "Customer has active loans. Complete all loans before deleting.",
                                "destructive")
            /\ UNCHANGED cuCalls
       ELSE /\ cuCalls' = {[fn |-> "deleteCustomer",
                            stage |-> IF variant = "part_005" THEN "select" ELSE "delete",
                            id |-> id]}
            /\ UNCHANGED cuToast
    /\ UNCHANGED <<cuCustomers, cuLoans, cuTx, customersList>>

\* part_005: deleteCustomer after its select of the customer's transactions;
\* the select's error is not read, and without data the delete goes ahead.
CustomersList_deleteCustomer_select(outcome) ==
    \E c \in cuCalls :
        LET loanIds == { cuLoans[i].id : i \in { j \in 1 .. Len(cuLoans) :
                                                    cuLoans[j].customer_id = c.id } }
            transactions == SelectSeq(cuTx, LAMBDA t : t.loan_id \in loanIds)
        IN  /\ c.fn = "deleteCustomer" /\ c.stage = "select"
            /\ IF outcome = "ok" /\ Len(transactions) > 0
               THEN /\ cuToast' = Toast("Cannot delete customer",
                           "Customer has transaction history. Cannot delete customer with transactions.",
                           "destructive")
                    /\ cuCalls' = cuCalls \ {c}
                    /\ deleteLog' = [deleteLog EXCEPT !.refused = TRUE]
               ELSE /\ cuCalls' = (cuCalls \ {c}) \cup {[c EXCEPT !.stage = "delete"]}
                    /\ UNCHANGED <<cuToast, deleteLog>>
            /\ UNCHANGED <<cuCustomers, cuLoans, cuTx, customersList>>

\* deleteCustomer after its delete: the row is removed and filtered out of the
\* local list; or the error is thrown and toasted.
CustomersList_deleteCustomer_delete(outcome) ==
    \E c \in cuCalls :
        /\ c.fn = "deleteCustomer" /\ c.stage = "delete"
        /\ cuCalls' = cuCalls \ {c}
        /\ IF outcome = "ok"
           THEN /\ cuCustomers' = cuCustomers \ {c.id}
                /\ cuLoans' = SelectSeq(cuLoans, LAMBDA l : l.customer_id # c.id)
                /\ customersList' = [customersList EXCEPT !.customers =
                       SelectSeq(customersList.customers, LAMBDA r : r.id # c.id)]
                /\ cuToast' = Toast("Customer deleted",
                                    "The customer has been successfully deleted.", "default")
           ELSE /\ cuToast' = Toast("Error", "Failed to delete customer", "destructive")
                /\ UNCHANGED <<cuCustomers, cuLoans, customersList>>
        /\ UNCHANGED <<cuTx, deleteLog>>

\* The list has mounted and awaits its first fetch.
InitCustomers ==
    /\ cuCustomers = CustomerIds
    /\ cuLoans \in CustomersStore_loans
    /\ cuTx = <<>>
    /\ customersList = [customers |-> <<>>, loading |-> TRUE]
    /\ cuToast = NoNotice
    /\ cuCalls = {[fn |-> "fetchCustomers", stage |-> "select", id |-> 0]}
    /\ deleteLog = NoDeleteLog

IdleCustomers ==
    /\ cuCustomers = {}
    /\ cuLoans = <<>>
    /\ cuTx = <<>>
    /\ customersList = [customers |-> <<>>, loading |-> TRUE]
    /\ cuToast = NoNotice
    /\ cuCalls = {}
    /\ deleteLog = NoDeleteLog

OnlyOutstanding == UNCHANGED <<calcVars, dwVars, authVars, settingsVars, loansVars, stmtVars, entriesVars, managerVars,
                loanStatementVars,
                expensesVars,
                organizeVars,
                customersVars>>

NextOutstanding == OnlyOutstanding /\ EvalOutstanding

InitSpecOutstanding == InitOutstanding /\ IdleInterest /\ IdleDaywise /\ IdleAuth /\ IdleSettings /\ IdleLoans /\ IdleStatement /\ IdleEntries /\ IdleManager
    /\ IdleLoanStatement
    /\ IdleExpenses
    /\ IdleOrganize
    /\ IdleCustomers

OnlyDaywise == UNCHANGED <<calcVars, outVars, authVars, settingsVars, loansVars, stmtVars, entriesVars, managerVars,
                loanStatementVars,
                expensesVars,
                organizeVars,
                customersVars>>

NextDaywise ==
    \/ OnlyDaywise /\ \E day \in PaymentDays : AddCustomerDialog_handleSubmit(day)
    \/ OnlyDaywise /\ DaywisePayment_fetchCustomers_start
    \/ OnlyDaywise /\ \E ok \in BOOLEAN : DaywisePayment_fetchCustomers_done(ok)
    \/ OnlyDaywise /\ NextDay

InitSpecDaywise == InitDaywise /\ IdleInterest /\ IdleOutstanding /\ IdleAuth /\ IdleSettings /\ IdleLoans /\ IdleStatement /\ IdleEntries /\ IdleManager
    /\ IdleLoanStatement
    /\ IdleExpenses
    /\ IdleOrganize
    /\ IdleCustomers

SpecDaywise == InitSpecDaywise /\ [][NextDaywise]_vars


SpecOutstanding == InitSpecOutstanding /\ [][NextOutstanding]_vars

OnlyInterest == UNCHANGED <<outVars, dwVars, authVars, settingsVars, loansVars, stmtVars, entriesVars, managerVars,
                loanStatementVars,
                expensesVars,
                organizeVars,
                customersVars>>

NextInterest == OnlyInterest /\ EvalInterest

InitSpecInterest == InitInterest /\ IdleOutstanding /\ IdleDaywise /\ IdleAuth /\ IdleSettings /\ IdleLoans /\ IdleStatement /\ IdleEntries /\ IdleManager
    /\ IdleLoanStatement
    /\ IdleExpenses
    /\ IdleOrganize
    /\ IdleCustomers

SpecInterest == InitSpecInterest /\ [][NextInterest]_vars

(***************************************************************************)
(* SpecAuth: AuthProvider's session check, the identity service's events,  *)
(* sign-in and sign-out, and the Dashboard's guards.                       *)
(***************************************************************************)
OnlyAuth == UNCHANGED <<calcVars, outVars, dwVars, settingsVars, loansVars, stmtVars, entriesVars, managerVars,
                loanStatementVars,
                expensesVars,
                organizeVars,
                customersVars>>

NextAuth ==
    \/ OnlyAuth /\ AuthService_emit
    \/ OnlyAuth /\ AuthProvider_onAuthStateChange
    \/ OnlyAuth /\ \E outcome \in {"ok", "error", "throw"} : AuthProvider_initializeAuth(outcome)
    \/ OnlyAuth /\ AuthProvider_timeout
    \/ OnlyAuth /\ AuthProvider_unmount
    \/ OnlyAuth /\ \E u \in Users, ok \in BOOLEAN : AuthProvider_signIn(u, ok)
    \/ OnlyAuth /\ Dashboard_handleSignOut_start
    \/ OnlyAuth /\ \E outcome \in {"ok", "error", "throw"} : Dashboard_handleSignOut_done(outcome)
    \/ OnlyAuth /\ Dashboard_Navigate
    \/ OnlyAuth /\ OpenDashboard

InitSpecAuth == InitAuth /\ IdleInterest /\ IdleOutstanding /\ IdleDaywise /\ IdleSettings /\ IdleLoans /\ IdleStatement /\ IdleEntries /\ IdleManager
    /\ IdleLoanStatement
    /\ IdleExpenses
    /\ IdleOrganize
    /\ IdleCustomers

SpecAuth == InitSpecAuth /\ [][NextAuth]_vars

\* The callback of a setTimeout that is not cleared runs: the timer of the
\* effect fires unless the cleanup has cleared it.  Nothing makes getSession
\* resolve or the service emit an event.
SpecAuthFair == SpecAuth /\ WF_vars(OnlyAuth /\ AuthProvider_timeout)

(***************************************************************************)
(* SpecSettings: one browser session moving between the Dashboard and the  *)
(* Settings page over the user_settings row.                               *)
(***************************************************************************)
OnlySettings == UNCHANGED <<calcVars, outVars, dwVars, authVars, loansVars, stmtVars, entriesVars, managerVars,
                loanStatementVars,
                expensesVars,
                organizeVars,
                customersVars>>

Outcomes == {"ok", "error"}

NextSettings ==
    \/ OnlySettings /\ Settings_mount(1)
    \/ OnlySettings /\ \E outcome \in {"ok", "42703", "error"} : Settings_fetchSettings_select(1, outcome)
    \/ OnlySettings /\ \E outcome \in Outcomes : Settings_fetchSettings_insert(1, outcome)
    \/ OnlySettings /\ \E key \in TabToggleKeys : Settings_handleToggle(1, key)
    \/ OnlySettings /\ \E outcome \in Outcomes : Settings_handleToggle_select(1, outcome)
    \/ OnlySettings /\ \E outcome \in Outcomes : Settings_handleToggle_write(1, outcome)
    \/ OnlySettings /\ \E key \in ControlToggleKeys : Settings_handleControlToggle(1, key)
    \/ OnlySettings /\ \E outcome \in Outcomes : Settings_handleControlToggle_select(1, outcome)
    \/ OnlySettings /\ \E outcome \in Outcomes : Settings_handleControlToggle_write(1, outcome)
    \/ OnlySettings /\ Settings_resetToDefaults(1)
    \/ OnlySettings /\ \E outcome \in Outcomes : Settings_resetToDefaults_done(1, outcome)
    \/ OnlySettings /\ Dashboard_mount(1)
    \/ OnlySettings /\ \E tab \in TabToggleKeys : Dashboard_setActiveTab(1, tab)
    \/ OnlySettings /\ \E outcome \in Outcomes : Dashboard_fetchTabSettings_select(1, outcome)
    \/ OnlySettings /\ \E outcome \in Outcomes : Dashboard_fetchTabSettings_insert(1, outcome)

InitSpecSettings ==
    InitSettings /\ IdleInterest /\ IdleOutstanding /\ IdleDaywise /\ IdleAuth /\ IdleLoans /\ IdleStatement /\ IdleEntries /\ IdleManager
    /\ IdleLoanStatement
    /\ IdleExpenses
    /\ IdleOrganize
    /\ IdleCustomers

SpecSettings == InitSpecSettings /\ [][NextSettings]_vars

(***************************************************************************)
(* SpecSessions: two browser sessions of the user on the Settings page,    *)
(* each loading the settings and toggling tabs.                            *)
(***************************************************************************)
NextSessions ==
    \/ OnlySettings /\ \E s \in Sessions, outcome \in {"ok", "42703", "error"} :
                           Settings_fetchSettings_select(s, outcome)
    \/ OnlySettings /\ \E s \in Sessions, outcome \in Outcomes :
                           Settings_fetchSettings_insert(s, outcome)
    \/ OnlySettings /\ \E s \in Sessions, key \in TabToggleKeys : Settings_handleToggle(s, key)
    \/ OnlySettings /\ \E s \in Sessions, outcome \in Outcomes :
                           Settings_handleToggle_select(s, outcome)
    \/ OnlySettings /\ \E s \in Sessions, outcome \in Outcomes :
                           Settings_handleToggle_write(s, outcome)

InitSpecSessions ==
    InitSessions /\ IdleInterest /\ IdleOutstanding /\ IdleDaywise /\ IdleAuth /\ IdleLoans /\ IdleStatement /\ IdleEntries /\ IdleManager
    /\ IdleLoanStatement
    /\ IdleExpenses
    /\ IdleOrganize
    /\ IdleCustomers

SpecSessions == InitSpecSessions /\ [][NextSessions]_vars

(***************************************************************************)
(* SpecLoans: LoansList, Dashboard.fetchStats and SalesList over the loan  *)
(* tables.                                                                 *)
(***************************************************************************)
OnlyLoans == UNCHANGED <<calcVars, outVars, dwVars, authVars, settingsVars, stmtVars, entriesVars, managerVars,
                loanStatementVars,
                expensesVars,
                organizeVars,
                customersVars>>

NextLoans ==
    \/ OnlyLoans /\ LoansList_mount
    \/ OnlyLoans /\ \E outcome \in Outcomes : LoansList_fetchLoans(outcome)
    \/ OnlyLoans /\ \E outcome \in Outcomes : LoansList_fetchAllTransactions(outcome)
    \/ OnlyLoans /\ \E loanId \in 1 .. MaxLoans : LoansList_showLedger(loanId)
    \/ OnlyLoans /\ \E outcome \in Outcomes : LoansList_showLedger_done(outcome)
    \/ OnlyLoans /\ \E loanId \in 1 .. MaxLoans : LoansList_showPayment(loanId)
    \/ OnlyLoans /\ \E dialog \in {"payment", "ledger"} : LoansList_onOpenChange(dialog)
    \/ OnlyLoans /\ \E amount \in PaymentAmounts : LoansList_handlePayment(amount)
    \/ OnlyLoans /\ \E outcome \in Outcomes : LoansList_handlePayment_insert(outcome)
    \/ OnlyLoans /\ \E outcome \in Outcomes : LoansList_handlePayment_fetchLoans(outcome)
    \/ OnlyLoans /\ \E outcome \in Outcomes : LoansList_handlePayment_fetchTransactions(outcome)
    \/ OnlyLoans /\ \E loanId \in 1 .. MaxLoans : LoansList_handleQuickDelete(loanId)
    \/ OnlyLoans /\ \E outcome \in Outcomes : LoansList_handleQuickDelete_deleteTransactions(outcome)
    \/ OnlyLoans /\ \E outcome \in Outcomes : LoansList_handleQuickDelete_deleteLoan(outcome)
    \/ OnlyLoans /\ \E outcome \in Outcomes : Dashboard_fetchStats(outcome)
    \/ OnlyLoans /\ SalesList_mount
    \/ OnlyLoans /\ \E outcome \in Outcomes : SalesList_fetchSales(outcome)

InitSpecLoans ==
    InitLoans /\ IdleInterest /\ IdleOutstanding /\ IdleDaywise /\ IdleAuth /\ IdleSettings /\ IdleStatement /\ IdleEntries /\ IdleManager
    /\ IdleLoanStatement
    /\ IdleExpenses
    /\ IdleOrganize
    /\ IdleCustomers

SpecLoans == InitSpecLoans /\ [][NextLoans]_vars

(***************************************************************************)
(* SpecEditLoan: the Loans tab over a store that already holds a payment   *)
(* for every loan; loans are deleted from the card or from EditLoanDialog. *)
(***************************************************************************)
\* EditLoanDialog.handleSubmit up to its await: the form, filled from the
\* selected loan, is submitted with a new interest rate; setLoading(true).
EditLoanDialog_handleSubmit(interest_rate) ==
    /\ loansList.editDialogOpen
    /\ loansList.selectedLoan # 0
    /\ ~editLoanDialog.loading
    /\ MayStart
    /\ editLoanDialog' = [editLoanDialog EXCEPT !.loading = TRUE]
    /\ calls' = calls \cup
           {Call("handleSubmit", "update", loansList.selectedLoan, {}, interest_rate)}
    /\ Step(NoResponse, NoNotice)
    /\ UNCHANGED <<storeLoans, storeTx, loansList, salesList, stats>>

\* handleSubmit after its update: the row is changed (no row, no change, no
\* error), the toast shown, onLoanUpdated() = Dashboard.fetchStats called and
\* the dialog closed; or the error is thrown and toasted; finally
\* setLoading(false).
EditLoanDialog_handleSubmit_update(outcome) ==
    \E c \in calls :
        /\ c.fn = "handleSubmit" /\ c.stage = "update"
        /\ IF outcome = "ok"
           THEN /\ storeLoans' = [i \in 1 .. Len(storeLoans) |->
                       IF storeLoans[i].id = c.loan
                       THEN [storeLoans[i] EXCEPT !.interest_rate = c.n]
                       ELSE storeLoans[i]]
                /\ calls' = (calls \ {c}) \cup {Call("fetchStats", "expenses", 0, {}, 0)}
                /\ loansList' = [loansList EXCEPT !.editDialogOpen = FALSE]
                /\ Step(Response("update loans", "ok"),
                        Toast("Success", "Loan updated successfully!", "default"))
           ELSE /\ calls' = calls \ {c}
                /\ Step(Response("update loans", "error"),
                        Toast("Error", "Failed to update loan.", "destructive"))
                /\ UNCHANGED <<storeLoans, loansList>>
        /\ editLoanDialog' = [editLoanDialog EXCEPT !.loading = FALSE]
        /\ UNCHANGED <<storeTx, salesList, stats>>

InitEditLoan ==
    /\ storeLoans = [i \in 1 .. MaxLoans |-> StoreLoanRow(i)]
    /\ storeTx = [i \in 1 .. MaxLoans |-> [loan_id |-> i, amount |-> 50]]
    /\ loansList = LoansList_mounted
    /\ salesList = [sales |-> <<>>, loading |-> FALSE]
    /\ stats = NoStats
    /\ calls = {Call("fetchLoans", "select", 0, {}, 0), Call("fetchStats", "expenses", 0, {}, 0)}
    /\ response = NoResponse
    /\ toast = NoNotice
    /\ anyError = FALSE
    /\ editLoanDialog = [loading |-> FALSE]

NextEditLoan ==
    \/ OnlyLoans /\ \E outcome \in Outcomes : LoansList_fetchLoans(outcome)
    \/ OnlyLoans /\ \E outcome \in Outcomes : LoansList_fetchAllTransactions(outcome)
    \/ OnlyLoans /\ \E loanId \in 1 .. MaxLoans : LoansList_handleEditLoan(loanId)
    \/ OnlyLoans /\ LoansList_onOpenChange("edit")
    \/ OnlyLoans /\ \E interest_rate \in {1} : EditLoanDialog_handleSubmit(interest_rate)
    \/ OnlyLoans /\ \E outcome \in Outcomes : EditLoanDialog_handleSubmit_update(outcome)
    \/ OnlyLoans /\ EditLoanDialog_handleDelete
    \/ OnlyLoans /\ \E outcome \in Outcomes : EditLoanDialog_handleDelete_deleteTransactions(outcome)
    \/ OnlyLoans /\ \E outcome \in Outcomes : EditLoanDialog_handleDelete_deleteLoan(outcome)
    \/ OnlyLoans /\ \E loanId \in 1 .. MaxLoans : LoansList_handleQuickDelete(loanId)
    \/ OnlyLoans /\ \E outcome \in Outcomes : LoansList_handleQuickDelete_deleteTransactions(outcome)
    \/ OnlyLoans /\ \E outcome \in Outcomes : LoansList_handleQuickDelete_deleteLoan(outcome)
    \/ OnlyLoans /\ \E outcome \in Outcomes : Dashboard_fetchStats(outcome)

InitSpecEditLoan ==
    InitEditLoan /\ IdleInterest /\ IdleOutstanding /\ IdleDaywise /\ IdleAuth /\ IdleSettings /\ IdleStatement /\ IdleEntries /\ IdleManager
    /\ IdleLoanStatement
    /\ IdleExpenses
    /\ IdleOrganize
    /\ IdleCustomers

SpecEditLoan == InitSpecEditLoan /\ [][NextEditLoan]_vars

(***************************************************************************)
(* SpecStatement: CustomerStatement over fixed tables; SpecEntries: the two *)
(* statement functions on their own.                                       *)
(***************************************************************************)
OnlyStatement ==
    UNCHANGED <<calcVars, outVars, dwVars, authVars, settingsVars, loansVars, entriesVars, managerVars,
                loanStatementVars,
                expensesVars,
                organizeVars,
                customersVars>>

NextStatement ==
    \/ OnlyStatement /\ \E customer \in StatementCustomers :
                            CustomerStatement_setCustomer(customer)
    \/ OnlyStatement /\ \E outcome \in Outcomes :
                            CustomerStatement_fetchCustomerData_loans(outcome)
    \/ OnlyStatement /\ \E outcome \in Outcomes :
                            CustomerStatement_fetchCustomerData_transactions(outcome)
    \/ OnlyStatement /\ \E date \in RangeDates : CustomerStatement_setStartDate(date)
    \/ OnlyStatement /\ \E date \in RangeDates : CustomerStatement_setEndDate(date)

InitSpecStatement ==
    InitStatement /\ IdleInterest /\ IdleOutstanding /\ IdleDaywise /\ IdleAuth
    /\ IdleSettings /\ IdleLoans /\ IdleEntries /\ IdleManager
    /\ IdleLoanStatement
    /\ IdleExpenses
    /\ IdleOrganize
    /\ IdleCustomers

SpecStatement == InitSpecStatement /\ [][NextStatement]_vars

OnlyEntries ==
    UNCHANGED <<calcVars, outVars, dwVars, authVars, settingsVars, loansVars, stmtVars, managerVars,
                loanStatementVars,
                expensesVars,
                organizeVars,
                customersVars>>

NextEntries == OnlyEntries /\ EvalEntries

InitSpecEntries ==
    InitEntries /\ IdleInterest /\ IdleOutstanding /\ IdleDaywise /\ IdleAuth
    /\ IdleSettings /\ IdleLoans /\ IdleStatement /\ IdleManager
    /\ IdleLoanStatement
    /\ IdleExpenses
    /\ IdleOrganize
    /\ IdleCustomers

SpecEntries == InitSpecEntries /\ [][NextEntries]_vars

(***************************************************************************)
(* SpecManager: payments entered in DaywiseCustomerManager.                *)
(***************************************************************************)
OnlyManager ==
    UNCHANGED <<calcVars, outVars, dwVars, authVars, settingsVars, loansVars, stmtVars,
                entriesVars,
                loanStatementVars,
                expensesVars,
                organizeVars,
                customersVars>>

NextManager ==
    \/ OnlyManager /\ \E amountStr \in PaymentInputs :
                          DaywiseCustomerManager_handlePaymentInputChange(amountStr)
    \/ OnlyManager /\ DaywiseCustomerManager_handlePaymentSubmit
    \/ OnlyManager /\ \E outcome \in Outcomes :
                          DaywiseCustomerManager_handlePaymentSubmit_insert(outcome)
    \/ OnlyManager /\ \E outcome \in Outcomes : DaywiseCustomerManager_fetchCustomers(outcome)

InitSpecManager ==
    InitManager /\ IdleInterest /\ IdleOutstanding /\ IdleDaywise /\ IdleAuth
    /\ IdleSettings /\ IdleLoans /\ IdleStatement /\ IdleEntries
    /\ IdleLoanStatement
    /\ IdleExpenses
    /\ IdleOrganize
    /\ IdleCustomers

SpecManager == InitSpecManager /\ [][NextManager]_vars

(***************************************************************************)
(* Claims about calculateInterest (SpecInterest).                          *)
(***************************************************************************)
\* The elapsed days rounded up: the least n with n days >= the elapsed time.
ElapsedDaysCeil(from, to) ==
    LET diff == getTime(to) - getTime(from)
    IN  CHOOSE n \in -(366 * (YearSpan + 2)) .. (366 * (YearSpan + 2)) :
            /\ n * TicksPerDay >= diff
            /\ (n - 1) * TicksPerDay < diff

\* C2: LoansList.calculateInterest returns 0 for type 'none' or rate 0;
\* balance * (rate/100) * ceil(days from loan_date to now) / 365 for 'daily';
\* balance * (rate/100) * (12 * yearDifference + monthDifference +
\* dayOfMonthDifference / 30) for 'monthly'; and 0 for every other type.
\* Both sides are multiplied by InterestScale.
C2_LoansListInterestFormula ==
    calcResult.done =>
        LET loan == calcInput.loan
            balance == calcInput.balance
            now == calcInput.now
            got == calcResult.loansList
        IN  /\ (loan.interest_type = "none" \/ loan.interest_rate = 0) => got = 0
            /\ (loan.interest_type = "daily" /\ loan.interest_rate # 0) =>
                   got = balance * loan.interest_rate * ElapsedDaysCeil(loan.loan_date, now)
                            * (InterestScale \div 36500)
            /\ (loan.interest_type = "monthly" /\ loan.interest_rate # 0) =>
                   got = balance * loan.interest_rate
                            * (30 * (12 * (now.y - loan.loan_date.y) + (now.m - loan.loan_date.m))
                               + (now.d - loan.loan_date.d))
                            * (InterestScale \div 3000)
            /\ loan.interest_type \notin {"none", "daily", "monthly"} => got = 0

\* A daily loan evaluated part of a day after a whole number of days, so that
\* the rounding up matters, with a non-zero result.
C2_Witness ==
    /\ calcResult.done
    /\ calcInput.loan.interest_type = "daily"
    /\ calcInput.loan.interest_rate > 0
    /\ calcInput.balance > 0
    /\ (getTime(calcInput.now) - getTime(calcInput.loan.loan_date)) % TicksPerDay # 0
    /\ getTime(calcInput.now) > getTime(calcInput.loan.loan_date)
    /\ calcResult.loansList > 0

(***************************************************************************)
(* Claims about the outstanding figures (SpecOutstanding).                 *)
(***************************************************************************)
\* C3: for the same loans and transactions, the outstanding_balance that
\* DaywiseCustomerManager.fetchCustomers attaches to each loan, and the one
\* CustomerSummary.fetchSummaryData accumulates per customer, equal what
\* LoansList.calculateOutstandingAmount gives for those loans (principal minus
\* recorded payments plus accrued interest), summed per customer.  The
\* interest-free figures are multiplied by InterestScale to compare.
C3_OutstandingFiguresAgree ==
    outView.done =>
        /\ \A i \in 1 .. Len(ledger.loans) :
              outView.daywise[i] * InterestScale = outView.loansList[i]
        /\ outView.summary * InterestScale = outView.loansListTotal

\* C10: for the same loan, balance and evaluation date, the copies of
\* calculateInterest in LoansList, CustomersList, CustomerStatement and
\* DaywisePayment return the same interest.
C10_InterestCopiesAgree ==
    calcResult.done =>
        /\ calcResult.customersList = calcResult.loansList
        /\ calcResult.customerStatement = calcResult.loansList
        /\ calcResult.daywisePayment = calcResult.loansList

\* A monthly loan with a day-of-month difference and a non-zero result.
C10_Witness ==
    /\ calcResult.done
    /\ calcInput.loan.interest_type = "monthly"
    /\ calcInput.loan.interest_rate > 0
    /\ calcInput.balance > 0
    /\ calcInput.now.d # calcInput.loan.loan_date.d
    /\ calcResult.customersList # 0

\* C11: a loan created through AddLoanDialog with an interest type other than
\* 'none' and a rate greater than 0 is shown by LoansList with non-zero accrued
\* interest once time has elapsed since its loan_date and its balance is
\* positive: LoansList.calculateInterest applies a formula to every interest
\* type AddLoanDialog can store.
C11_StoredTypesAccrueInterest ==
    ( /\ calcResult.done
      /\ \E formData \in AddLoanDialog_forms :
             calcInput.loan = AddLoanDialog_insertedLoan(formData)
      /\ calcInput.loan.interest_type # "none"
      /\ calcInput.loan.interest_rate > 0
      /\ calcInput.balance > 0
      /\ calcInput.now.y > calcInput.loan.loan_date.y )
    => calcResult.loansList # 0

(***************************************************************************)
(* Claims about the settings row (SpecSettings, SpecSessions).             *)
(***************************************************************************)
SuccessControlToast == Toast("Success", "Control settings updated successfully", "default")
SuccessTabToast == Toast("Success", "Settings updated successfully", "default")

\* C4: after a control flag (allowEdit or allowDelete) has been switched off
\* through Settings.handleControlToggle and the change has been stored
\* successfully, the flag is false in ControlContext's settings, so the edit
\* and delete controls gated by it are not rendered and their handlers do
\* nothing.
C4_ControlFlagSwitchedOff ==
    \A s \in Sessions, flag \in ControlToggleKeys :
        ( /\ notice[s] = SuccessControlToast
          /\ settingsPage[s].call = NoCall
          /\ ~Truthy(settingsPage[s].controlSettings, flag)
          /\ storeSettings.exists
          /\ ~Truthy(storeSettings.control_settings, flag) )
        => ~ControlGate(s, flag)

\* handleToggle's update of an existing row has just succeeded in session s.
ToggleStored(s) ==
    /\ settingsPage[s].call.handler = "handleToggle"
    /\ settingsPage[s].call.stage = "update"
    /\ settingsPage'[s].call = NoCall
    /\ notice'[s] = SuccessTabToast

\* C5: the Dashboard renders a tab exactly when its flag is true in the
\* settings it loads from the store; a successful Settings.handleToggle(k)
\* leaves the store such that the next Dashboard load shows tab k exactly when
\* the newly stored flag for k is true, and shows every other tab as the load
\* before the toggle did.
C5_ToggleChangesOneTab ==
    [][ \A s \in Sessions :
          ToggleStored(s) =>
              \A j \in DOMAIN Dashboard_defaultSettings :
                  Dashboard_tabRendered(storeSettings'.visible_tabs, j) =
                      IF j = settingsPage[s].call.key
                      THEN settingsPage[s].call.new[j]
                      ELSE Dashboard_tabRendered(storeSettings.visible_tabs, j) ]_vars

\* Sessions s and t have each completed a handleToggle on the user's row,
\* neither request failed, they started from the same settings and toggled
\* different tabs, and the write of s arrived last.
RacedToggles(s, t) ==
    /\ s # t
    /\ toggleLog[s].done /\ toggleLog[t].done
    /\ toggleLog[s].existing /\ toggleLog[t].existing
    /\ ~toggleLog[s].requestFailed /\ ~toggleLog[t].requestFailed
    /\ toggleLog[s].base = toggleLog[t].base
    /\ toggleLog[s].key # toggleLog[t].key
    /\ lastWriter = s

\* C7: when two sessions of the user call Settings.handleToggle for different
\* tabs starting from the same loaded settings, both writes complete without an
\* error or conflict notification, the store's visible_tabs is the complete
\* object written by whichever write arrived last, and the other session's
\* toggle is lost.
C7_LastWriteWins ==
    \A s, t \in Sessions :
        RacedToggles(s, t) =>
            /\ toggleLog[s].ok /\ toggleLog[t].ok
            /\ notice[s] = SuccessTabToast /\ notice[t] = SuccessTabToast
            /\ storeSettings.visible_tabs = toggleLog[s].written
            /\ Truthy(storeSettings.visible_tabs, toggleLog[t].key)
                   = Truthy(toggleLog[t].base, toggleLog[t].key)

\* Both sessions loaded the six-key row; session 2 hid the loans tab, session 1
\* then hid expenses: the store shows loans again.
C7_Witness ==
    /\ RacedToggles(1, 2)
    /\ toggleLog[1].base = Dashboard_defaultSettings
    /\ toggleLog[1].key = "expenses"
    /\ toggleLog[2].key = "loans"
    /\ ~Truthy(storeSettings.visible_tabs, "expenses")
    /\ Truthy(storeSettings.visible_tabs, "loans")
    /\ ~Truthy(settingsPage[2].settings, "loans")

(***************************************************************************)
(* Claims about LoansList and the remote errors (SpecLoans).               *)
(***************************************************************************)
\* The loans and their transactions have loaded: LoansList awaits nothing,
\* and no request has returned an error.
LoansListLoaded ==
    /\ ~loansList.loading
    /\ loansList.loans # <<>>
    /\ LoansListCalls = {}
    /\ ~anyError

\* C1: in every state reached after the loans and their transactions have
\* loaded (also after showLedger, handlePayment and any re-fetch), the balance
\* calculateLoanBalance computes for each listed loan equals the loan's
\* principal_amount minus the sum of the amounts of all transactions recorded
\* for that loan in the remote store.
C1_BalanceMatchesStore ==
    LoansListLoaded =>
        \A loanId \in LoansList_listed \cap LoanIds(storeLoans) :
            LoansList_calculateLoanBalance(loansList.loans, loansList.transactions, loanId)
                = FindLoan(loansList.loans, loanId).principal_amount
                      - SumAmount(TransactionsIn(storeTx, {loanId}))

\* C6: every error returned by a remote call is surfaced to the user as a
\* destructive notification by the handler that receives it; none is dropped.
C6_RemoteErrorsSurfaced ==
    response.error => toast.variant = "destructive"

(***************************************************************************)
(* Claims about the DaywisePayment schedule (SpecDaywise).                 *)
(***************************************************************************)
WeekdayNames == {"sunday", "monday", "tuesday", "wednesday", "thursday", "friday", "saturday"}

\* The name of the day getDay() numbers n: 0 is Sunday.
WeekdayOf(n) ==
    CASE n = 0 -> "sunday" [] n = 1 -> "monday" [] n = 2 -> "tuesday"
      [] n = 3 -> "wednesday" [] n = 4 -> "thursday" [] n = 5 -> "friday"
      [] n = 6 -> "saturday"

\* The positions of the weekly schedule under which a customer is listed.
ListedUnder(customer) ==
    { k \in 1 .. Len(DaywisePayment_getUpcomingDays(dwToday)) :
        \E j \in 1 .. Len(DaywisePayment_getCustomersByDay(dwCustomers,
                              DaywisePayment_getUpcomingDays(dwToday)[k])) :
            DaywisePayment_getCustomersByDay(dwCustomers,
                DaywisePayment_getUpcomingDays(dwToday)[k])[j].id = customer.id }

\* C9: getUpcomingDays returns each of the seven weekdays exactly once,
\* beginning with the current day; every customer whose payment_day is a
\* weekday name is listed under exactly that day and no other, and a customer
\* with no payment_day is listed under no day.
C9_WeeklySchedule ==
    LET up == DaywisePayment_getUpcomingDays(dwToday)
    IN  /\ Len(up) = 7
        /\ \A day \in WeekdayNames : Cardinality({ k \in 1 .. Len(up) : up[k] = day }) = 1
        /\ up[1] = WeekdayOf(dwToday)
        /\ DaywisePayment_getCurrentDay(dwToday) = WeekdayOf(dwToday)
        /\ \A i \in 1 .. Len(dwCustomers) :
              LET customer == dwCustomers[i]
              IN  IF customer.payment_day \in WeekdayNames
                  THEN /\ Cardinality(ListedUnder(customer)) = 1
                       /\ \A k \in ListedUnder(customer) : up[k] = customer.payment_day
                  ELSE ListedUnder(customer) = {}

\* Mid-week, with a customer due earlier in the week than today (so the wrap
\* around Saturday matters) and a customer without a payment day, both loaded.
C9_Witness ==
    /\ ~dwLoading
    /\ dwToday = 3
    /\ \E i, j \in 1 .. Len(dwCustomers) :
          /\ dwCustomers[i].payment_day = "monday"
          /\ dwCustomers[j].payment_day = "null"

(***************************************************************************)
(* Claims about the Dashboard's guards (SpecAuth).                         *)
(***************************************************************************)
\* C8: the Dashboard renders the tabbed views only where the auth loading flag
\* is false and user is non-null; while loading is true it renders only the
\* loading spinner; when loading is false and user is null it redirects to
\* /auth.
C8_DashboardGuards ==
    (route = "/" /\ authMounted) =>
        /\ DashboardView = "tabs" => (~authLoading /\ authUser # "null")
        /\ authLoading => DashboardView = "spinner"
        /\ (~authLoading /\ authUser = "null") => DashboardView = "redirect"

\* The Dashboard shows the tabbed views to a user who signed in again after a
\* sign-out: loading has been cleared and the listener has delivered the user.
C8_Witness ==
    /\ route = "/"
    /\ authMounted
    /\ ~authLoading
    /\ authUser # "null"
    /\ "Signed out" \in authNotices
    /\ DashboardView = "tabs"

\* C12: loan deletion, from the card (handleQuickDelete) or from
\* EditLoanDialog (handleDelete), has no transaction boundary.  The delete of
\* the loan's transactions is answered first, leaves the loans table alone and
\* is always followed by the delete of the loan; when the delete of the loan
\* fails, the loan row remains, the transactions are not restored, a
\* destructive toast is shown and no request is started again.
DeleteCalls == {c \in calls : c.fn \in {"handleQuickDelete", "handleDelete"}}

C12_DeleteHasNoTransactionBoundary ==
    [][\A c \in DeleteCalls :
          /\ (c.stage = "deleteTransactions" /\ c \notin calls') =>
                 /\ storeLoans' = storeLoans
                 /\ [c EXCEPT !.stage = "deleteLoan"] \in calls'
          /\ (c.stage = "deleteLoan" /\ c \notin calls' /\ response'.error) =>
                 /\ storeLoans' = storeLoans
                 /\ storeTx' = storeTx
                 /\ toast'.variant = "destructive"
                 /\ calls' = calls \ {c}]_vars

\* The delete of a loan has just failed after its transactions were deleted:
\* the loan is still stored, its stored payments are gone (the list still
\* shows one), and the destructive toast is up.
C12_Witness ==
    /\ response = Response("delete loans", "error")
    /\ toast.variant = "destructive"
    /\ \E id \in LoanIds(storeLoans) :
           /\ TransactionsIn(storeTx, {id}) = <<>>
           /\ TransactionsIn(loansList.transactions, {id}) # <<>>
           /\ TransactionsIn(storeTx, LoanIds(storeLoans)) # <<>>

\* C13: in CustomerStatement, once loading has finished and no fetch is
\* awaited, the displayed statement equals generateStatement applied to the
\* loaded loans and transactions and the chosen date range; in particular it
\* has a disbursement entry for every loaded loan in range also when the
\* customer has no transactions.
C13_StatementIsGenerated ==
    (~custStatement.loading /\ stCalls = {}) =>
        custStatement.statement =
            CustomerStatement_generateStatement(custStatement.loans,
                custStatement.transactions, custStatement.startDate, custStatement.endDate)

\* debit minus credit summed over the first i entries.
RECURSIVE NetOfEntries(_, _)
NetOfEntries(entries, i) ==
    IF i = 0 THEN 0
    ELSE NetOfEntries(entries, i - 1) + entries[i].debit - entries[i].credit

LedgerInOrder(entries) ==
    /\ \A i \in 1 .. Len(entries) - 1 : entries[i].date <= entries[i + 1].date
    /\ \A i \in 1 .. Len(entries) : entries[i].balance = NetOfEntries(entries, i)
    /\ Len(entries) > 0 =>
           entries[Len(entries)].balance =
               SumField(entries, "debit", Len(entries)) - SumField(entries, "credit", Len(entries))

\* C14: CustomerStatement.generateStatement and
\* SaleCustomerStatement.fetchStatement output their entries in non-decreasing
\* date order, each entry's balance is the debits minus the credits of the
\* entries up to and including it, and the last balance is total debits minus
\* total credits.
C14_EntriesOrderedWithRunningBalance ==
    entriesResult.done =>
        /\ LedgerInOrder(entriesResult.customerStatement)
        /\ LedgerInOrder(entriesResult.saleStatement)

\* Both statements computed from rows that were collected out of date order:
\* a payment dated before the loan (sale) it is collected after.
C14_Witness ==
    /\ entriesResult.done
    /\ Len(entriesResult.customerStatement) >= 3
    /\ Len(entriesResult.saleStatement) >= 3
    /\ entriesResult.customerStatement[1].credit > 0
    /\ entriesResult.saleStatement[1].credit > 0
    /\ \E i \in 1 .. Len(entriesResult.customerStatement) :
           entriesResult.customerStatement[i].balance < 0

\* The customer's total outstanding balance over active loans, as the
\* handler saw it.
RECURSIVE TotalOutstanding(_, _)
TotalOutstanding(loans, i) ==
    IF i = 0 THEN 0
    ELSE TotalOutstanding(loans, i - 1)
         + (IF loans[i].is_active THEN loans[i].outstanding_balance ELSE 0)

Min(a, b) == IF a < b THEN a ELSE b

\* C15: no operation writes a calculated value to the remote store: every
\* amount DaywiseCustomerManager.handlePaymentSubmit inserts is the amount
\* the user entered, never a client-computed outstanding balance.
C15_WrittenAmountsAreEntered ==
    dcmLast.inserted =>
        \A i \in 1 .. Len(dcmLast.rows) : dcmLast.rows[i].amount = dcmLast.amount

\* C17: in DaywiseCustomerManager.handlePaymentSubmit the amounts of the
\* transactions inserted for one submitted payment add up to the smaller of
\* the entered amount and the customer's total outstanding over active loans.
C17_InsertedSumIsPayment ==
    dcmLast.inserted =>
        SumAmount(dcmLast.rows)
            = Min(dcmLast.amount, TotalOutstanding(dcmLast.loans, Len(dcmLast.loans)))

\* C16: Dashboard.handleSignOut shows 'Signed out' and navigates to /auth only
\* when the remote sign-out succeeded.  When signOut() comes back while the
\* service still holds the session (it returned an error or threw), the user
\* gets the error notification, no success notification, and stays on the
\* location they were on.
C16_SignOutFailureKeepsDashboard ==
    [][(signOutPending /\ ~signOutPending' /\ serverSession' # "null") =>
          /\ "Sign Out Error" \in authNotices'
          /\ "Signed out" \notin (authNotices' \ authNotices)
          /\ route' = route]_vars

\* C19: the Dashboard redirects to /auth only after the session check has
\* completed (getSession resolved, or an auth-state event was delivered) and
\* yielded no user; it never redirects while the check is still pending,
\* also when the 5-second timer fires first.
C19_RedirectAfterSessionCheck ==
    DashboardView = "redirect" =>
        /\ authUser = "null"
        /\ ("getSession" \notin authPending \/ authDelivered)

\* C20: while AuthProvider stays mounted, loading eventually becomes false
\* (getSession returning, erring or throwing, an auth-state event, or the
\* 5-second timer); once false it never becomes true again; after unmount no
\* state update is applied.
C20_LoadingSettles ==
    /\ <>(~authLoading \/ ~authMounted)
    /\ [][~authLoading => ~authLoading']_vars
    /\ [][~authMounted => UNCHANGED <<authUser, authSession, authLoading>>]_vars

\* loading was cleared by the timer alone: the provider is mounted, getSession
\* has not resolved and no event was delivered.
C20_Witness ==
    /\ authMounted
    /\ ~authLoading
    /\ "timer" \notin authPending
    /\ "getSession" \in authPending
    /\ ~authDelivered

\* The two fetches handlePayment leads to: fetchAllTransactions, started by
\* the effect when its fetchLoans sets loans, and its own
\* fetchTransactions(selectedLoan.id).
PaymentFetches ==
    {c \in calls : \/ c.fn = "fetchAllTransactions"
                   \/ c.fn = "handlePayment" /\ c.stage = "fetchTransactions"}

\* C18: after LoansList.handlePayment succeeds and all the requests it started
\* have resolved, the transactions state does not depend on the order in which
\* fetchAllTransactions and fetchTransactions(selectedLoan.id) are answered:
\* whichever is answered last, transactions holds the transactions of all
\* listed loans.
C18_TransactionsIndependentOfOrder ==
    [][\A c \in PaymentFetches :
          (c \notin calls' /\ PaymentFetches' = {} /\ ~anyError') =>
              loansList'.transactions
                  = TransactionsIn(storeTx', LoanIds(loansList'.loans))]_vars

\* C21: LoansList classifies a loan as Closed exactly when its outstanding
\* amount (principal minus payments plus accrued interest) is at most 0; with
\* an empty search query every loaded loan is in exactly one of the views
\* status = 'active' and status = 'closed'; Add Payment and View Ledger are
\* offered only for loans that are not Closed.
C21_ClosedIffNothingOutstanding ==
    outView.done =>
        \A i \in 1 .. Len(ledger.loans) :
            /\ (ledger.loans[i].id \in outView.closed) <=> (outView.loansList[i] <= 0)
            /\ (ledger.loans[i].id \in outView.active) <=> (ledger.loans[i].id \notin outView.closed)
            /\ (ledger.loans[i].id \in outView.offered) => (outView.loansList[i] > 0)

\* A ledger with a loan repaid to exactly 0, shown as Closed without the
\* payment buttons, and a loan still owing, shown as Active with them.
C21_Witness ==
    /\ outView.done
    /\ \E i \in 1 .. Len(ledger.loans) :
           outView.loansList[i] = 0 /\ ledger.loans[i].id \in outView.closed
    /\ \E i \in 1 .. Len(ledger.loans) :
           outView.loansList[i] > 0 /\ ledger.loans[i].id \in outView.offered

(***************************************************************************)
(* Specification of the loan statement figures.                            *)
(***************************************************************************)
OnlyLoanStatement ==
    UNCHANGED <<calcVars, outVars, dwVars, authVars, settingsVars, loansVars, stmtVars,
                entriesVars, managerVars,
                expensesVars,
                organizeVars,
                customersVars>>

NextLoanStatement == OnlyLoanStatement /\ EvalLoanStatement

InitSpecLoanStatement ==
    InitLoanStatement /\ IdleInterest /\ IdleOutstanding /\ IdleDaywise /\ IdleAuth
    /\ IdleSettings /\ IdleLoans /\ IdleStatement /\ IdleEntries /\ IdleManager
    /\ IdleExpenses
    /\ IdleOrganize
    /\ IdleCustomers

SpecLoanStatement == InitSpecLoanStatement /\ [][NextLoanStatement]_vars

\* C22: in both statements Total Amount Paid is the sum of the amounts of all
\* the loan's transactions, whatever their type, so that the principal minus
\* Total Amount Paid is the Outstanding Balance printed next to it.
C22_TotalPaidCoversEveryTransaction ==
    loanStatement.done =>
        \A s \in {loanStatement.text, loanStatement.pdf} :
            /\ s.totalPaid = SumAmount(statementLoan.transactions)
            /\ s.principal - s.totalPaid = s.balance

(***************************************************************************)
(* Specification of the expenses totals.                                   *)
(***************************************************************************)
OnlyExpenses ==
    UNCHANGED <<calcVars, outVars, dwVars, authVars, settingsVars, loansVars, stmtVars,
                entriesVars, managerVars, loanStatementVars,
                organizeVars,
                customersVars>>

NextExpenses ==
    \/ OnlyExpenses /\ \E a \in ExpenseAmounts, o \in {"ok", "error"} :
                           AddExpenseDialog_handleSubmit(a, o)
    \/ OnlyExpenses /\ \E a \in ExpenseAmounts, o \in {"ok", "error"} :
                           AddEarningDialog_handleSubmit(a, o)
    \/ OnlyExpenses /\ \E o \in {"ok", "error"} : ExpensesListEnhanced_fetchExpenses(o)
    \/ OnlyExpenses /\ Dashboard_load
    \/ OnlyExpenses /\ \E o \in {"ok", "error"} : Dashboard_fetchStats_expenses(o)

InitSpecExpenses ==
    InitExpenses /\ IdleInterest /\ IdleOutstanding /\ IdleDaywise /\ IdleAuth
    /\ IdleSettings /\ IdleLoans /\ IdleStatement /\ IdleEntries /\ IdleManager
    /\ IdleLoanStatement
    /\ IdleOrganize
    /\ IdleCustomers

SpecExpenses == InitSpecExpenses /\ [][NextExpenses]_vars

\* C23: once the Dashboard and the expenses list have both read the table as
\* it is, the Dashboard's Total Expenses is the sum of the rows of type
\* 'expense' (earnings are not counted) and equals the list's unfiltered total.
C23_TotalExpensesCountsExpensesOnly ==
    expFresh = {"stats", "list"} =>
        /\ dashExpenses = SumAmount(SelectSeq(expensesStore, LAMBDA r : r.type = "expense"))
        /\ dashExpenses = ExpensesListEnhanced_totalExpenses(expensesList.expenses)

(***************************************************************************)
(* Specification of the grouping of customers by payment day and address.  *)
(***************************************************************************)
OnlyOrganize ==
    UNCHANGED <<calcVars, outVars, dwVars, authVars, settingsVars, loansVars, stmtVars,
                entriesVars, managerVars, loanStatementVars, expensesVars,
                customersVars>>

NextOrganize == OnlyOrganize /\ EvalOrganize

InitSpecOrganize ==
    InitOrganize /\ IdleInterest /\ IdleOutstanding /\ IdleDaywise /\ IdleAuth
    /\ IdleSettings /\ IdleLoans /\ IdleStatement /\ IdleEntries /\ IdleManager
    /\ IdleLoanStatement /\ IdleExpenses
    /\ IdleCustomers

SpecOrganize == InitSpecOrganize /\ [][NextOrganize]_vars

\* The places <<d, a, k>> of dayGroups that hold the customer with this id.
PlacesOf(dayGroups, id) ==
    { p \in (1 .. MaxOrganizeCustomers) \X (1 .. MaxOrganizeCustomers)
            \X (1 .. MaxOrganizeCustomers) :
        /\ p[1] <= Len(dayGroups)
        /\ p[2] <= Len(dayGroups[p[1]].addressGroups)
        /\ p[3] <= Len(dayGroups[p[1]].addressGroups[p[2]].customers)
        /\ dayGroups[p[1]].addressGroups[p[2]].customers[p[3]].id = id }

RECURSIVE SumSeq(_)
SumSeq(s) == IF s = <<>> THEN 0 ELSE Head(s) + SumSeq(Tail(s))

\* C24: organizeCustomersData places every customer in exactly one
\* (payment day, address) group, the one named by the customer's payment_day
\* (or 'Not Set') and address (or 'No Address'); nobody else is in a group; and
\* each day's total is the sum of the totals of its address groups.
C24_EveryCustomerInOneGroup ==
    organizeResult.done =>
        LET dayGroups == organizeResult.dayGroups
        IN  /\ \A i \in 1 .. Len(organizeInput) :
                   /\ Cardinality(PlacesOf(dayGroups, i)) = 1
                   /\ \A p \in PlacesOf(dayGroups, i) :
                          /\ organizeInput[i].payment_day = "null" =>
                                 dayGroups[p[1]].paymentDay = "Not Set"
                          /\ organizeInput[i].payment_day \notin {"null", ""} =>
                                 dayGroups[p[1]].paymentDay = organizeInput[i].payment_day
                          /\ dayGroups[p[1]].addressGroups[p[2]].address =
                                 IF organizeInput[i].address = "null"
                                 THEN "No Address" ELSE organizeInput[i].address
                          /\ dayGroups[p[1]].addressGroups[p[2]].customers[p[3]] =
                                 organizeInput[i]
            /\ \A d \in 1 .. Len(dayGroups) :
                   /\ \A a \in 1 .. Len(dayGroups[d].addressGroups) :
                          /\ dayGroups[d].addressGroups[a].customers # <<>>
                          /\ \A k \in 1 .. Len(dayGroups[d].addressGroups[a].customers) :
                                 dayGroups[d].addressGroups[a].customers[k].id
                                     \in 1 .. Len(organizeInput)
                   /\ organizeResult.dayTotals[d] = SumSeq(organizeResult.addressTotals[d])
            /\ SumSeq(organizeResult.dayTotals) =
                   DaywiseCustomerManager_customersTotal(organizeInput)

\* Three customers, two of them without payment day and address sharing the
\* 'Not Set' / 'No Address' group, with a positive total.
C24_Witness ==
    /\ organizeResult.done
    /\ Len(organizeInput) = 3
    /\ \E d \in 1 .. Len(organizeResult.dayGroups) :
           /\ organizeResult.dayGroups[d].paymentDay = "Not Set"
           /\ \E a \in 1 .. Len(organizeResult.dayGroups[d].addressGroups) :
                  /\ organizeResult.dayGroups[d].addressGroups[a].address = "No Address"
                  /\ Len(organizeResult.dayGroups[d].addressGroups[a].customers) = 2
           /\ organizeResult.dayTotals[d] > 0
    /\ Len(organizeResult.dayGroups) = 2

\* C25: for the same fetched sales and sale transactions, the balance of the
\* last entry of SaleCustomerStatement is the Outstanding figure of
\* SaleCustomerDetails, total sale amount minus total paid.
C25_LastBalanceIsOutstanding ==
    entriesResult.done /\ entriesResult.saleStatement # <<>> =>
        entriesResult.saleStatement[Len(entriesResult.saleStatement)].balance
            = entriesResult.saleOutstanding

\* Two sales and a payment, with the payment dated before the later sale.
C25_Witness ==
    /\ entriesResult.done
    /\ Len(entriesInput.loans) = 2
    /\ Len(entriesInput.transactions) >= 1
    /\ Len(entriesResult.saleStatement) = 3
    /\ entriesResult.saleStatement[2].credit > 0
    /\ entriesResult.saleOutstanding > 0
    /\ entriesResult.saleStatement[3].balance = entriesResult.saleOutstanding

\* The settings writes session s has issued and not yet seen complete.
SettingsWritesInFlight(s) ==
    (IF settingsPage[s].call.handler \in {"handleToggle", "handleControlToggle"}
     THEN {settingsPage[s].call.handler} ELSE {})
    \cup (IF settingsPage[s].resetPending THEN {"resetToDefaults"} ELSE {})

\* C26: on the Settings page no two settings writes are in flight at the same
\* time (a toggle handler and resetToDefaults never overlap), and isUpdating
\* is true exactly while a toggle handler awaits its requests.
C26_OneSettingsWriteAtATime ==
    /\ Cardinality(SettingsWritesInFlight(1)) <= 1
    /\ settingsPage[1].isUpdating <=>
           settingsPage[1].call.handler \in {"handleToggle", "handleControlToggle"}

ToggleHandlers == {"handleToggle", "handleControlToggle"}

Dashboard_visibleTabs(s) ==
    { k \in DOMAIN Dashboard_defaultSettings :
          Dashboard_tabRendered(dashboard[s].tabSettings, k) }

\* C28: once the Dashboard has loaded its tab settings, its active tab is one
\* of the tabs it shows; after a successful resetToDefaults these are all six.
C28_ActiveTabIsVisible ==
    (page[1] = "dashboard" /\ dashboard[1].fetch = "idle") =>
        /\ dashboard[1].activeTab \in Dashboard_visibleTabs(1)
        /\ (storeSettings.exists /\ notice[1].description = "Settings reset to defaults"
             /\ dashboard[1].tabSettings = storeSettings.visible_tabs)
               => Dashboard_visibleTabs(1) = DOMAIN Dashboard_defaultSettings

(***************************************************************************)
(* Specification of deleting customers whose loans are being repaid.       *)
(***************************************************************************)
OnlyCustomers ==
    UNCHANGED <<calcVars, outVars, dwVars, authVars, settingsVars, loansVars, stmtVars,
                entriesVars, managerVars, loanStatementVars, expensesVars, organizeVars>>

NextCustomers ==
    \/ OnlyCustomers /\ CustomersList_fetchCustomers
    \/ OnlyCustomers /\ \E o \in Outcomes : CustomersList_fetchCustomers_select(o)
    \/ OnlyCustomers /\ \E a \in RepaymentAmounts, o \in Outcomes :
                            \E loanId \in 1 .. 2 : LoansList_handlePayment_stored(loanId, a, o)
    \/ OnlyCustomers /\ \E id \in CustomerIds, v \in CustomersListVariants :
                            CustomersList_deleteCustomer(id, v)
    \/ OnlyCustomers /\ \E o \in Outcomes : CustomersList_deleteCustomer_select(o)
    \/ OnlyCustomers /\ \E o \in Outcomes : CustomersList_deleteCustomer_delete(o)

InitSpecCustomers ==
    InitCustomers /\ IdleInterest /\ IdleOutstanding /\ IdleDaywise /\ IdleAuth
    /\ IdleSettings /\ IdleLoans /\ IdleStatement /\ IdleEntries /\ IdleManager
    /\ IdleLoanStatement /\ IdleExpenses /\ IdleOrganize

SpecCustomers == InitSpecCustomers /\ [][NextCustomers]_vars

\* C29: deleteCustomer refuses a customer who has a loan with something still
\* to repay, and once every loan of the customer is repaid in full through
\* recorded payments (and the list shows the tables as they are) it does not
\* refuse: nothing then stands between the call and the remote delete.
C29_DeleteAfterLoansRepaid ==
    deleteLog.id # 0 =>
        /\ (/\ deleteLog.fresh
            /\ \E i \in 1 .. Len(deleteLog.balances) :
                   deleteLog.balances[i].is_active /\ deleteLog.balances[i].balance > 0)
               => deleteLog.refused
        /\ (/\ deleteLog.fresh
            /\ deleteLog.balances # <<>>
            /\ \A i \in 1 .. Len(deleteLog.balances) : deleteLog.balances[i].balance <= 0)
               => ~deleteLog.refused

\* C30: after handleQuickDelete or an EditLoanDialog update or delete has
\* succeeded and nothing is awaited any more, the loans LoansList holds are
\* rows of the loans table as they are now: a deleted loan is not listed and
\* an edited loan is listed with its new values.
C30_ListAgreesWithStore ==
    (calls = {} /\ ~loansList.loading) =>
        \A i \in 1 .. Len(loansList.loans) :
            /\ HasLoan(storeLoans, loansList.loans[i].id)
            /\ FindLoan(storeLoans, loansList.loans[i].id).interest_rate
                   = loansList.loans[i].interest_rate

====
